---- MODULE Spec2Model ----
(***************************************************************************)
(* Verification model of the qsimforb92 QKD simulator: the B92 and BB84    *)
(* student implementations, the bridges that attach them to the simulation *)
(* hosts, the interactive B92 host and the quantum channel.                 *)
(*                                                                         *)
(* The specifications share the variables of this module:                  *)
(*   SpecSift  - StudentB92Host.b92_sifting applied to arbitrary inputs    *)
(*   SpecBB84  - StudentQuantumHost send / receive driven as in main()     *)
(*   Spec      - two InteractiveQuantumHostB92 hosts, their bridges, the   *)
(*               channel between them and the classical transport          *)
(*   SpecFair  - Spec with the send loop and the transport running on     *)
(*   SpecChannel - one QuantumChannel, its construction and its callers    *)
(*   SpecBus   - the B92 event managers and the websocket connections      *)
(*   SpecNoise - single calls of QuantumChannel.apply_noise              *)
(*   SpecGate  - single calls on a host with an unvalidated student code   *)
(*   SpecProto - the protocol status files and the switching helpers       *)
(*   SpecPairing - one B92 run of two student hosts over a lossy channel   *)
(*   SpecStudent - single calls of the student hosts' methods and of the   *)
(*               bridges' helper functions on arbitrary inputs             *)
(***************************************************************************)
EXTENDS Integers, Sequences, FiniteSets, TLC

VARIABLES
    \* ---- SpecSift: one call of StudentB92Host.b92_sifting
    sf_sent_bits,              \* argument sent_bits
    sf_received_measurements,  \* argument received_measurements
    sf_result,                 \* returned (sifted_sender, sifted_receiver)
    sf_sifted_key,             \* self.sifted_key of the object called
    sf_pc,                     \* "input" before the call, "done" after
    \* ---- SpecBB84: StudentQuantumHost alice / bob and the driver loop
    bb_alice,                  \* random_bits, measurement_bases, quantum_states
    bb_bob,                    \* received_bases, measurement_outcomes
    bb_next,                   \* driver loop: index of the next qubit to hand to bob
    bb_run_start,              \* len(bob.measurement_outcomes) when the run began
    bb_impl,                   \* "student" methods or the bridge "helpers"
    \* ---- Spec: the B92 hosts
    cfg,                       \* wiring of hosts and bridges
    channel,                   \* QuantumChannel parameters
    host,                      \* InteractiveQuantumHostB92 fields, per host
    bridge,                    \* bridge fields and its two StudentB92Host objects
    queue,                     \* classical messages in flight
    snd,                       \* position of the b92_send_qubits call in progress
    last_send,                 \* how the last b92_send_qubits call ended
    runs,                      \* number of b92_send_qubits calls so far
    driver_calls,              \* number of direct driver calls so far
    \* ---- SpecChannel: one QuantumChannel and the callers of transmit_qubit
    ch_pc,                     \* "args" before QuantumChannel(...), "ready" after
    ch_conf,                   \* the constructor arguments / the channel's fields
    ch_loop,                   \* the bridge's loop over the prepared qubits of a run
    ch_handed,                 \* qubits of the run handed to transmit_qubit so far
    ch_received,               \* per endpoint: qubits its receive_qubit was called with
    ch_events,                 \* events the channel has emitted
    ch_last,                   \* the last transmit_qubit call and how it ended
    ch_calls,                  \* number of transmit_qubit calls so far
    \* ---- SpecBus: the B92 event managers and the websocket connections
    bus,                       \* B92WorldEventManager: history, listeners
    mgr,                       \* B92SimulationManager: b92_events, socket_conn
    sock,                      \* B92ConnectionManager: connections, b92_events, broadcasts
    \* ---- SpecStudent: one call of a method of a student host or bridge helper
    st_op,                     \* the method called
    st_self,                   \* fields of the object it is called on, before the call
    st_args,                   \* its arguments
    st_out,                    \* how the call ended: result, error, fields after the call
    \* ---- SpecProto: the working directory of the protocol helpers
    pr_os,                     \* "posix" or "nt": how os.rename treats an existing target
    pr_files,                  \* the status files that exist
    pr_calls                   \* the helper calls made so far and how each ended

siftVars == <<sf_sent_bits, sf_received_measurements, sf_result, sf_sifted_key, sf_pc>>
bbVars   == <<bb_alice, bb_bob, bb_next, bb_run_start, bb_impl>>
hostVars == <<cfg, channel, host, bridge, queue, snd, last_send, runs, driver_calls>>
chVars   == <<ch_pc, ch_conf, ch_loop, ch_handed, ch_received, ch_events, ch_last, ch_calls>>
busVars  == <<bus, mgr, sock>>
studentVars == <<st_op, st_self, st_args, st_out>>
protoVars == <<pr_os, pr_files, pr_calls>>
vars     == <<siftVars, bbVars, hostVars, chVars, busVars, studentVars, protoVars>>

\* what the actions of one specification leave alone
notSiftVars == <<bbVars, hostVars, chVars, busVars, studentVars, protoVars>>
notBB84Vars == <<siftVars, hostVars, chVars, busVars, studentVars, protoVars>>
notHostVars == <<siftVars, bbVars, chVars, busVars, studentVars, protoVars>>
notChVars   == <<siftVars, bbVars, hostVars, busVars, studentVars, protoVars>>
notBusVars  == <<siftVars, bbVars, hostVars, chVars, studentVars, protoVars>>
notStudentVars == <<siftVars, bbVars, hostVars, chVars, busVars, protoVars>>
notProtoVars == <<siftVars, bbVars, hostVars, chVars, busVars, studentVars>>

\* ------------------------------------------------------------------ bounds
MaxLen    == 3   \* longest argument list given to b92_sifting in SpecSift
MaxQubits == 2   \* largest num_qubits of one send
MaxRuns   == 2   \* B92 sends per behaviour
MaxRecorded == 4 \* outcomes the BB84 receiver records per behaviour
MaxQueue  == 3   \* classical messages in flight
MaxCalls  == 1   \* direct driver calls (notify, sifting) per behaviour

\* ------------------------------------------------------------------ helpers
Min(a, b) == IF a < b THEN a ELSE b

Bits == {0, 1}

SeqsUpTo(S, n) == UNION {[1..k -> S] : k \in 0..n}

\* ------------------------------------------------------------------
\* StudentB92Host (student_b92_impl.py)
\* ------------------------------------------------------------------

\* b92_prepare_qubit: bit 0 -> "|0>", bit 1 -> "|+>", anything else raises
b92_prepare_qubit(bit) ==
    IF bit = 0 THEN "|0>"
    ELSE IF bit = 1 THEN "|+>"
    ELSE "ValueError"

\* the variant of b92_measure_qubit with the two bases exchanged
b92_measure_qubit_swapped(qubit) ==
    {<<0, "X">> : x \in IF qubit = "|0>" THEN {1} ELSE {}}
    \cup {<<o, "X">> : o \in IF qubit = "|+>" THEN {0, 1} ELSE {}}
    \cup {<<0, "Z">> : x \in IF qubit = "|+>" THEN {1} ELSE {}}
    \cup {<<o, "Z">> : o \in IF qubit = "|0>" THEN {0, 1} ELSE {}}

\* b92_measure_qubit: the (outcome, basis) pairs the two random draws can give
b92_measure_qubit(qubit) ==
    {<<0, "Z">> : x \in IF qubit = "|0>" THEN {1} ELSE {}}
    \cup {<<o, "Z">> : o \in IF qubit = "|+>" THEN {0, 1} ELSE {}}
    \cup {<<0, "X">> : x \in IF qubit = "|+>" THEN {1} ELSE {}}
    \cup {<<o, "X">> : o \in IF qubit = "|0>" THEN {0, 1} ELSE {}}

\* the mutated iteration: the claimed sent bit is not cross-checked
SiftAppendNoCrossCheck(acc, sent_bit, m) ==
    IF m[1] = 1
    THEN IF m[2] = "Z"
         THEN <<Append(acc[1], sent_bit), Append(acc[2], 1)>>
         ELSE IF m[2] = "X"
              THEN <<Append(acc[1], sent_bit), Append(acc[2], 0)>>
              ELSE acc
    ELSE acc

\* the mutated iteration: the outcome is not looked at
SiftAppendAnyOutcome(acc, sent_bit, m) ==
    IF m[2] = "Z"
    THEN IF sent_bit = 1
         THEN <<Append(acc[1], 1), Append(acc[2], 1)>>
         ELSE acc
    ELSE IF m[2] = "X"
         THEN IF sent_bit = 0
              THEN <<Append(acc[1], 0), Append(acc[2], 0)>>
              ELSE acc
         ELSE acc

\* one iteration of the loop of b92_sifting over zip(sent_bits, received_measurements)
SiftAppend(acc, sent_bit, m) ==
    IF m[1] = 1
    THEN IF m[2] = "Z"
         THEN IF sent_bit = 1
              THEN <<Append(acc[1], 1), Append(acc[2], 1)>>
              ELSE acc
         ELSE IF m[2] = "X"
              THEN IF sent_bit = 0
                   THEN <<Append(acc[1], 0), Append(acc[2], 0)>>
                   ELSE acc
              ELSE acc
    ELSE acc

RECURSIVE SiftLoop(_, _, _, _)
SiftLoop(sent_bits, received_measurements, i, acc) ==
    IF i > Min(Len(sent_bits), Len(received_measurements))
    THEN acc
    ELSE SiftLoop(sent_bits, received_measurements, i + 1,
                  SiftAppend(acc, sent_bits[i], received_measurements[i]))

\* b92_sifting: returns (sifted_sender, sifted_receiver); the caller's object
\* also stores sifted_receiver as self.sifted_key
b92_sifting(sent_bits, received_measurements) ==
    SiftLoop(sent_bits, received_measurements, 1, <<<<>>, <<>>>>)

\* ------------------------------------------------------------------
\* SpecSift: b92_sifting on arbitrary arguments
\* ------------------------------------------------------------------
Bases == {"Z", "X", "W"}   \* "W" stands for any basis string that is neither Z nor X

Measurements == Bits \X Bases

SiftIdle ==
    /\ sf_sent_bits = <<>>
    /\ sf_received_measurements = <<>>
    /\ sf_result = <<<<>>, <<>>>>
    /\ sf_sifted_key = <<>>
    /\ sf_pc = "off"

SiftInit ==
    /\ sf_sent_bits \in SeqsUpTo(Bits, MaxLen)
    /\ sf_received_measurements \in SeqsUpTo(Measurements, MaxLen)
    /\ sf_result = <<<<>>, <<>>>>
    /\ sf_sifted_key = <<>>
    /\ sf_pc = "input"

SiftCall ==
    /\ sf_pc = "input"
    /\ sf_result' = b92_sifting(sf_sent_bits, sf_received_measurements)
    /\ sf_sifted_key' = sf_result'[2]
    /\ sf_pc' = "done"
    /\ UNCHANGED <<sf_sent_bits, sf_received_measurements, notSiftVars>>

\* ------------------------------------------------------------------
\* StudentQuantumHost (student_bb84_impl.py) and the BB84 bridge helpers
\* ------------------------------------------------------------------

\* the state bb84_send_qubits encodes a bit into: basis 0 is Z, basis 1 is X
BB84Encode(classical_bit, preparation_basis) ==
    IF preparation_basis = 0
    THEN IF classical_bit = 0 THEN "|0⟩" ELSE "|1⟩"
    ELSE IF classical_bit = 0 THEN "|+⟩" ELSE "|-⟩"

\* prepare_quantum_state of enhanced_student_bridge.py
prepare_quantum_state(bit, basis) ==
    IF basis = 0
    THEN IF bit = 0 THEN "|0⟩" ELSE "|1⟩"
    ELSE IF bit = 0 THEN "|+⟩" ELSE "|-⟩"

\* a measurement that ignores the state it is given
BB84MeasureIgnoringState(qbit, measurement_basis) == {0, 1}

\* the outcomes process_received_qbit can record for a state and a basis
BB84Measure(qbit, measurement_basis) ==
    IF measurement_basis = 0
    THEN IF qbit = "|0⟩" THEN {0}
         ELSE IF qbit = "|1⟩" THEN {1}
         ELSE {0, 1}
    ELSE IF qbit = "|+⟩" THEN {0}
         ELSE IF qbit = "|-⟩" THEN {1}
         ELSE {0, 1}

\* measure_quantum_state of enhanced_student_bridge.py
measure_quantum_state(quantum_state, measurement_basis) ==
    IF measurement_basis = 0
    THEN IF quantum_state \in {"|0⟩", "|1⟩"}
         THEN (IF quantum_state = "|0⟩" THEN {0} ELSE {1})
         ELSE {0, 1}
    ELSE IF quantum_state \in {"|+⟩", "|-⟩"}
         THEN (IF quantum_state = "|+⟩" THEN {0} ELSE {1})
         ELSE {0, 1}

BB84Idle ==
    /\ bb_alice = [random_bits |-> <<>>, measurement_bases |-> <<>>, quantum_states |-> <<>>]
    /\ bb_bob = [received_bases |-> <<>>, measurement_outcomes |-> <<>>]
    /\ bb_next = 1
    /\ bb_run_start = 0
    /\ bb_impl = "off"

\* StudentQuantumHost.__init__ for alice and bob: every list starts empty
BB84Init ==
    /\ bb_alice = [random_bits |-> <<>>, measurement_bases |-> <<>>, quantum_states |-> <<>>]
    /\ bb_bob = [received_bases |-> <<>>, measurement_outcomes |-> <<>>]
    /\ bb_next = 1
    /\ bb_run_start = 0
    /\ bb_impl \in {"student", "helpers"}

\* alice.bb84_send_qubits(num_qubits): the three lists are reinitialised, then
\* one random bit and one random basis per qubit are drawn and encoded
BB84Send ==
    /\ bb_next > Len(bb_alice.quantum_states)
    /\ \E num_qubits \in 1..Min(MaxQubits, MaxRecorded - Len(bb_bob.measurement_outcomes)) :
       \E bits \in [1..num_qubits -> Bits], bases \in [1..num_qubits -> Bits] :
          bb_alice' = [random_bits |-> bits,
                       measurement_bases |-> bases,
                       quantum_states |->
                           [i \in 1..num_qubits |->
                               IF bb_impl = "student"
                               THEN BB84Encode(bits[i], bases[i])
                               ELSE prepare_quantum_state(bits[i], bases[i])]]
    /\ bb_next' = 1
    /\ bb_run_start' = Len(bb_bob.measurement_outcomes)
    /\ UNCHANGED <<bb_bob, bb_impl, notBB84Vars>>

\* bob.process_received_qbit(qbit, None) for the next qubit of the driver loop
BB84Receive ==
    /\ bb_next <= Len(bb_alice.quantum_states)
    /\ \E measurement_basis \in Bits :
       \E outcome \in (IF bb_impl = "student"
                       THEN BB84Measure(bb_alice.quantum_states[bb_next], measurement_basis)
                       ELSE measure_quantum_state(bb_alice.quantum_states[bb_next],
                                                  measurement_basis)) :
          bb_bob' = [received_bases |-> Append(bb_bob.received_bases, measurement_basis),
                     measurement_outcomes |-> Append(bb_bob.measurement_outcomes, outcome)]
    /\ bb_next' = bb_next + 1
    /\ UNCHANGED <<bb_alice, bb_run_start, bb_impl, notBB84Vars>>

\* ------------------------------------------------------------------
\* QuantumChannel (quantum_network/channel.py)
\* ------------------------------------------------------------------
RECURSIVE Pow(_, _)
Pow(b, e) == IF e = 0 THEN 1 ELSE b * Pow(b, e - 1)

\* the values random.random() is sampled at, in hundredths
RandomDraws == {0, 99}

\* loss_per_km and the draw are held in percent. (1 - loss_per_km) ** length
\* is the fraction SurvNum / SurvDen with SurvDen > 0; for a negative length
\* it is the reciprocal of the power, which Python refuses for a base of 0.
SurvBase(ch) == 100 - ch.loss_per_km

SurvNum(ch) ==
    IF ch.length >= 0 THEN Pow(SurvBase(ch), ch.length)
    ELSE IF Pow(SurvBase(ch), 0 - ch.length) < 0
         THEN 0 - Pow(100, 0 - ch.length) ELSE Pow(100, 0 - ch.length)

SurvDen(ch) ==
    IF ch.length >= 0 THEN Pow(100, ch.length)
    ELSE IF Pow(SurvBase(ch), 0 - ch.length) < 0
         THEN 0 - Pow(SurvBase(ch), 0 - ch.length) ELSE Pow(SurvBase(ch), 0 - ch.length)

\* 0.0 ** negative raises ZeroDivisionError
PowerRaises(ch) == ch.length < 0 /\ SurvBase(ch) = 0

\* a loss test that also counts a draw equal to the loss probability as lost
LossSampledAtOrBelow(ch, r) ==
    r * SurvDen(ch) <= 100 * (SurvDen(ch) - SurvNum(ch))

\* loss_prob = 1 - (1 - loss_per_km) ** length, and the qubit is lost when the
\* draw is below loss_prob
LossSampled(ch, r) ==
    r * SurvDen(ch) < 100 * (SurvDen(ch) - SurvNum(ch))

\* the loss branch of transmit_qubit is entered only when a noise model is
\* configured and QuTiP was importable
LossBranch(ch) == ch.noise_model # "none" /\ ch.qt

\* transmit_qubit raises QubitLossError. The qubits are strings, so
\* apply_noise hands them on unchanged.
TransmitRaises(ch, r) ==
    /\ LossBranch(ch)
    /\ ~PowerRaises(ch)
    /\ LossSampled(ch, r)

\* how a transmit_qubit call ends for the draw r
TransmitOutcome(ch, r) ==
    IF LossBranch(ch) /\ PowerRaises(ch) THEN "ZeroDivisionError"
    ELSE IF TransmitRaises(ch, r) THEN "QubitLossError"
    ELSE "delivered"

\* ------------------------------------------------------------------
\* The hosts, their bridges and the StudentB92Host objects behind them
\* ------------------------------------------------------------------
Hosts == {"A", "B"}

Peer(h) == IF h = "A" THEN "B" ELSE "A"

\* "shared": B92ProtocolManager builds one EnhancedStudentB92ImplementationBridge
\*           and gives it to both hosts as student_implementation; the first
\*           host built (alice, "A") becomes bridge.host and enhanced_bridge
\*           stays None on both hosts.
\* "own":    each host loads its own EnhancedB92Bridge as enhanced_bridge.
Wirings == {"shared", "own"}

\* the bridge a host's calls go to; a bridge is named after its bridge.host
BridgeOf(h) == IF cfg = "shared" THEN "A" ELSE h

REC_LIMIT == 20    \* receive_qubit stops after this many receives
PROC_LIMIT == 16   \* b92_process_received_qbit stops after this many calls

DEFAULT_SAMPLE_POSITIONS == <<0, 1, 2, 3, 4>>
DEFAULT_REFERENCE_BITS == <<0, 1, 0, 1, 0>>

\* Positions are Python indices, counted from 0.

\* the variant of Differs that compares the recorded value with 0
DiffersFromZero(recorded_outcome, reference_bit) == recorded_outcome # 0

\* if recorded_outcome != reference_bit
Differs(recorded_outcome, reference_bit) == recorded_outcome # reference_bit

\* the loop of b92_estimate_error_rate from the k-th pair on; acc is
\* (errors, comparisons)
RECURSIVE B92EstimateLoop(_, _, _, _, _)
B92EstimateLoop(sifted_key, sample_positions, reference_bits, k, acc) ==
    IF k > Min(Len(sample_positions), Len(reference_bits)) THEN acc
    ELSE LET pos == sample_positions[k]
             ref_bit == reference_bits[k]
         IN B92EstimateLoop(sifted_key, sample_positions, reference_bits, k + 1,
                IF pos < Len(sifted_key)
                THEN <<acc[1] + (IF Differs(sifted_key[pos + 1], ref_bit) THEN 1 ELSE 0),
                       acc[2] + 1>>
                ELSE acc)

\* StudentB92Host.b92_estimate_error_rate as (errors, comparisons); (0, 0)
\* stands for the 0.0 returned when nothing was compared
b92_estimate_error_rate(sifted_key, sample_positions, reference_bits) ==
    IF sample_positions = <<>> \/ reference_bits = <<>>
    THEN <<0, 0>>
    ELSE B92EstimateLoop(sifted_key, sample_positions, reference_bits, 1, <<0, 0>>)

InitHost ==
    [sifted_key |-> <<>>,
     sent_bits |-> <<>>,
     basis_choices |-> <<>>,
     received_measurements |-> <<>>,
     sifting_done |-> FALSE,
     qubit_receive_count |-> 0,
     processed_qubits |-> {},
     processing_count |-> 0,
     completed |-> <<>>]

InitBridge ==
    [b92_phase |-> "idle",
     bits_received |-> 0,
     expected_bits |-> 0,
     student_alice |-> [sent_bits |-> <<>>, sifted_key |-> <<>>],
     student_bob |-> [received_measurements |-> <<>>, sifted_key |-> <<>>],
     last_error_rate |-> <<0, 0>>]

NoSend ==
    [active |-> FALSE, from |-> "A", qubits |-> <<>>, idx |-> 1,
     base |-> 0, delivered |-> 0]

NoLastSend ==
    [outcome |-> "none", n |-> 0, transmitted |-> 0, delivered |-> 0,
     recorded |-> 0, sifting_sent |-> FALSE]

HostIdle ==
    /\ cfg = "off"
    /\ channel = [noise_model |-> "none", loss_per_km |-> 0, length |-> 0, qt |-> FALSE]
    /\ host = [h \in Hosts |-> InitHost]
    /\ bridge = [h \in Hosts |-> InitBridge]
    /\ queue = <<>>
    /\ snd = NoSend
    /\ last_send = NoLastSend
    /\ runs = 0
    /\ driver_calls = 0

\* the channels the hosts are run over: the same lossy fibre with and without
\* a noise model configured
Channels == {[noise_model |-> nm, loss_per_km |-> 50, length |-> 2, qt |-> TRUE] :
                 nm \in {"none", "depolarizing"}}

\* QuantumChannel.__init__, InteractiveQuantumHostB92.__init__ and the bridge
\* constructors: every list empty, every counter 0, phase "idle"
HostInit ==
    /\ cfg \in Wirings
    /\ channel \in Channels
    /\ host = [h \in Hosts |-> InitHost]
    /\ bridge = [h \in Hosts |-> InitBridge]
    /\ queue = <<>>
    /\ snd = NoSend
    /\ last_send = NoLastSend
    /\ runs = 0
    /\ driver_calls = 0

\* ------------------------------------------------------------------
\* Bridge and host methods as functions of S = [host, bridge, out], where out
\* collects the messages handed to send_classical_data during the call
\* ------------------------------------------------------------------
Msg(to, type, data) == [to |-> to, type |-> type, data |-> data]

\* Optional arguments: <<>> stands for a call that leaves them out (None),
\* <<x, y>> for a call that gives both.
NoArgs == <<>>

\* EnhancedStudentB92ImplementationBridge.b92_sifting(sent_bits, received_measurements)
EsbSifting(S, b, args) ==
    LET sb == IF args = NoArgs THEN S.bridge[b].student_alice.sent_bits ELSE args[1]
        rm == IF args = NoArgs
              THEN S.bridge[b].student_bob.received_measurements ELSE args[2]
        key == b92_sifting(sb, rm)[2]
    IN [host |-> [S.host EXCEPT ![b].sifted_key = key],
        bridge |-> [S.bridge EXCEPT ![b].b92_phase = "sifting",
                                    ![b].student_alice.sifted_key = key],
        out |-> Append(S.out, Msg(Peer(b), "sifted_key", key))]

\* EnhancedB92Bridge.b92_sifting(sent_bits, received_measurements)
EbSifting(S, b, args) ==
    LET sb == IF args = NoArgs THEN S.bridge[b].student_alice.sent_bits ELSE args[1]
        rm == IF args = NoArgs
              THEN S.bridge[b].student_bob.received_measurements ELSE args[2]
        key == b92_sifting(sb, rm)[2]
    IN [S EXCEPT !.bridge[b].student_alice.sifted_key = key]

\* EnhancedStudentB92ImplementationBridge.b92_estimate_error_rate: the phase
\* passes through "error_checking" and is "complete" when the call returns;
\* last_error_rate is the rate the call returns and reports
EsbEstimate(S, b, args) ==
    LET sifted_key == S.bridge[b].student_alice.sifted_key
        pos == IF args = NoArgs
               THEN [k \in 1..Len(sifted_key) |-> k - 1] ELSE args[1]
        ref == IF args = NoArgs THEN sifted_key ELSE args[2]
        rate == b92_estimate_error_rate(S.bridge[b].student_bob.sifted_key, pos, ref)
    IN [host |-> S.host,
        bridge |-> [S.bridge EXCEPT ![b].b92_phase = "complete",
                                    ![b].last_error_rate = rate],
        out |-> Append(S.out, Msg(Peer(b), "complete", <<>>))]

\* EnhancedB92Bridge.b92_estimate_error_rate: without arguments the student
\* method is called without its two required arguments, which raises
\* TypeError before _last_error_rate is stored
EbEstimate(S, b, args) ==
    IF args = NoArgs
    THEN S
    ELSE [S EXCEPT !.bridge[b].last_error_rate =
              b92_estimate_error_rate(S.bridge[b].student_alice.sifted_key,
                                      args[1], args[2])]

\* InteractiveQuantumHostB92.b92_sifting() called without arguments
HostSifting(S, h) ==
    IF cfg = "own"
    THEN EbSifting(S, h, NoArgs)
    ELSE EsbSifting(S, BridgeOf(h), NoArgs)

\* InteractiveQuantumHostB92.b92_estimate_error_rate() called without arguments
HostEstimate(S, h) ==
    IF cfg = "own"
    THEN EbEstimate(S, h, NoArgs)
    ELSE EsbEstimate(S, BridgeOf(h), NoArgs)

\* the variant of ProcessSifting that does not look at _sifting_done
ProcessSiftingUnguarded(S, h) ==
    IF FALSE
    THEN S
    ELSE LET \* with no enhanced_bridge the host reads sent_bits and
             \* received_measurements off the bridge object, which has neither,
             \* and passes the two empty defaults
             S1 == IF cfg = "own"
                   THEN EbSifting(S, h, NoArgs)
                   ELSE EsbSifting(S, BridgeOf(h), <<<<>>, <<>>>>)
             S2 == [S1 EXCEPT !.host[h].sifting_done = TRUE]
             S3 == IF cfg = "own"
                   THEN EbEstimate(S2, h, <<DEFAULT_SAMPLE_POSITIONS, DEFAULT_REFERENCE_BITS>>)
                   ELSE EsbEstimate(S2, BridgeOf(h),
                                    <<DEFAULT_SAMPLE_POSITIONS, DEFAULT_REFERENCE_BITS>>)
         IN [S3 EXCEPT !.out = Append(S3.out, Msg(Peer(h), "complete", <<>>))]

\* process_message, branch "sifting" / "reconcile_bases"
ProcessSifting(S, h) ==
    IF S.host[h].sifting_done
    THEN S
    ELSE LET \* with no enhanced_bridge the host reads sent_bits and
             \* received_measurements off the bridge object, which has neither,
             \* and passes the two empty defaults
             S1 == IF cfg = "own"
                   THEN EbSifting(S, h, NoArgs)
                   ELSE EsbSifting(S, BridgeOf(h), <<<<>>, <<>>>>)
             S2 == [S1 EXCEPT !.host[h].sifting_done = TRUE]
             S3 == IF cfg = "own"
                   THEN EbEstimate(S2, h, <<DEFAULT_SAMPLE_POSITIONS, DEFAULT_REFERENCE_BITS>>)
                   ELSE EsbEstimate(S2, BridgeOf(h),
                                    <<DEFAULT_SAMPLE_POSITIONS, DEFAULT_REFERENCE_BITS>>)
         IN [S3 EXCEPT !.out = Append(S3.out, Msg(Peer(h), "complete", <<>>))]

\* process_message, branch "complete": the callback is handed b92_extract_key()
ProcessComplete(S, h) ==
    [S EXCEPT !.host[h].completed = Append(S.host[h].completed, S.host[h].sifted_key)]

\* InteractiveQuantumHostB92.process_message
ProcessMessage(S, h, type) ==
    IF type \in {"sifting", "reconcile_bases"} THEN ProcessSifting(S, h)
    ELSE IF type = "estimate_error_rate" THEN HostEstimate(S, h)
    ELSE IF type = "complete" THEN ProcessComplete(S, h)
    ELSE S

\* the bridge's part of receiving a qubit, for the outcome m of the measurement
BridgeReceive(S, to, m) ==
    IF cfg = "own"
    THEN \* EnhancedB92Bridge.b92_process_received_qbit
         [S EXCEPT !.bridge[to].student_bob.received_measurements = Append(@, m)]
    ELSE \* host.b92_process_received_qbit, then
         \* EnhancedStudentB92ImplementationBridge.process_received_qbit
         LET b == BridgeOf(to)
             count == S.host[to].processing_count + 1
             S1 == [S EXCEPT !.host[to].processing_count = count]
             rm == Append(S1.bridge[b].student_bob.received_measurements, m)
             got == S1.bridge[b].bits_received + 1
             phase1 == IF S1.bridge[b].b92_phase = "idle"
                       THEN "receiving" ELSE S1.bridge[b].b92_phase
         IN IF count > PROC_LIMIT
            THEN S1
            ELSE [S1 EXCEPT !.bridge[b].student_bob.received_measurements = rm,
                            !.bridge[b].bits_received = got,
                            !.bridge[b].b92_phase =
                                IF got >= S1.bridge[b].expected_bits
                                THEN "ready_for_sifting" ELSE phase1,
                            !.host[b].received_measurements = rm]

\* InteractiveQuantumHostB92.receive_qubit. The qubit is identified by
\* id(qbit) and the channel; b92_prepare_qubit returns one of two string
\* constants, so two qubits in the same state are the same object.
ReceiveQubit(S, to, qbit, m) ==
    LET count == S.host[to].qubit_receive_count + 1
        S1 == [S EXCEPT !.host[to].qubit_receive_count = count]
    IN IF qbit \in S1.host[to].processed_qubits THEN S1
       ELSE IF count > REC_LIMIT THEN S1
       ELSE BridgeReceive([S1 EXCEPT !.host[to].processed_qubits = @ \cup {qbit}], to, m)

\* ------------------------------------------------------------------
\* Actions of the B92 hosts
\* ------------------------------------------------------------------
Now == [host |-> host, bridge |-> bridge, out |-> <<>>]

\* records read by the sifting a receive feeds: the bridge of the receiving host
RecvBridge(from) == BridgeOf(Peer(from))

Recorded(from) == Len(bridge[RecvBridge(from)].student_bob.received_measurements)

\* host.b92_send_qubits(num_qubits) up to the first send_qubit: the bridge
\* draws the bits through student_alice.b92_send_qubits and prepares the qubits.
\* The call runs to its end before any other call starts (SendTransmit,
\* SendFinish); snd holds its position in the loop over the qubits.
SendStart(h) ==
    /\ ~snd.active
    /\ runs < MaxRuns
    /\ Len(queue) < MaxQueue
    /\ \E num_qubits \in 1..MaxQubits :
       \E bits \in [1..num_qubits -> Bits] :
          LET b == BridgeOf(h)
          IN /\ bridge' = IF cfg = "shared"
                          THEN [bridge EXCEPT ![b].b92_phase = "sending",
                                              ![b].expected_bits = num_qubits,
                                              ![b].student_alice.sent_bits = bits]
                          ELSE [bridge EXCEPT ![b].student_alice.sent_bits = bits]
             /\ host' = IF cfg = "shared"
                        THEN [host EXCEPT ![b].sent_bits = bits,
                                          ![b].basis_choices = bits]
                        ELSE host
             /\ snd' = [active |-> TRUE, from |-> b,
                        qubits |-> [i \in 1..num_qubits |-> b92_prepare_qubit(bits[i])],
                        idx |-> 1, base |-> Recorded(b), delivered |-> 0]
    /\ runs' = runs + 1
    /\ UNCHANGED <<cfg, channel, queue, last_send, driver_calls, notHostVars>>

\* one iteration of "for q in qubits: self.host.send_qubit(q, channel)":
\* channel.transmit_qubit either raises QubitLossError, which nothing on the
\* way up catches, so that b92_send_qubits ends there, or calls the peer's
\* receive_qubit
SendTransmit ==
    /\ snd.active
    /\ snd.idx <= Len(snd.qubits)
    /\ \E r \in RandomDraws :
          IF TransmitRaises(channel, r)
          THEN /\ snd' = NoSend
               /\ last_send' = [outcome |-> "QubitLossError",
                                n |-> Len(snd.qubits),
                                transmitted |-> snd.idx,
                                delivered |-> snd.delivered,
                                recorded |-> Recorded(snd.from) - snd.base,
                                sifting_sent |-> FALSE]
               /\ UNCHANGED <<host, bridge>>
          ELSE \E m \in b92_measure_qubit(snd.qubits[snd.idx]) :
                  LET S == ReceiveQubit(Now, Peer(snd.from), snd.qubits[snd.idx], m)
                  IN /\ host' = S.host
                     /\ bridge' = S.bridge
                     /\ snd' = [snd EXCEPT !.idx = @ + 1, !.delivered = @ + 1]
                     /\ UNCHANGED last_send
    /\ UNCHANGED <<cfg, channel, queue, runs, driver_calls, notHostVars>>

\* the end of b92_send_qubits: host.send_bases_for_sifting() hands the
\* "sifting" message to send_classical_data
SendFinish ==
    /\ snd.active
    /\ snd.idx > Len(snd.qubits)
    /\ queue' = Append(queue, Msg(Peer(snd.from), "sifting", host[snd.from].basis_choices))
    /\ last_send' = [outcome |-> "returned",
                     n |-> Len(snd.qubits),
                     transmitted |-> snd.idx - 1,
                     delivered |-> snd.delivered,
                     recorded |-> Recorded(snd.from) - snd.base,
                     sifting_sent |-> TRUE]
    /\ snd' = NoSend
    /\ UNCHANGED <<cfg, channel, host, bridge, runs, driver_calls, notHostVars>>

RemoveAt(s, i) == [k \in 1..(Len(s) - 1) |-> IF k < i THEN s[k] ELSE s[k + 1]]

\* the classical transport hands a message to its destination's
\* receive_classical_data, in order for each destination
Deliver ==
    /\ ~snd.active
    /\ \E i \in 1..Len(queue) :
          /\ \A k \in 1..(i - 1) : queue[k].to # queue[i].to
          /\ LET S == ProcessMessage(Now, queue[i].to, queue[i].type)
                 rest == RemoveAt(queue, i)
             IN /\ Len(rest) + Len(S.out) <= MaxQueue
                /\ host' = S.host
                /\ bridge' = S.bridge
                /\ queue' = rest \o S.out
    /\ UNCHANGED <<cfg, channel, snd, last_send, runs, driver_calls, notHostVars>>

DriverMessageTypes == {"sifting", "estimate_error_rate", "complete"}

\* the driver notifies a host of a classical message (receive_classical_data)
Notify(h, type) ==
    /\ ~snd.active
    /\ driver_calls < MaxCalls
    /\ LET S == ProcessMessage(Now, h, type)
       IN /\ Len(queue) + Len(S.out) <= MaxQueue
          /\ host' = S.host
          /\ bridge' = S.bridge
          /\ queue' = queue \o S.out
    /\ driver_calls' = driver_calls + 1
    /\ UNCHANGED <<cfg, channel, snd, last_send, runs, notHostVars>>

\* the driver calls host.b92_sifting() itself
DirectSift(h) ==
    /\ ~snd.active
    /\ driver_calls < MaxCalls
    /\ LET S == HostSifting(Now, h)
       IN /\ Len(queue) + Len(S.out) <= MaxQueue
          /\ host' = S.host
          /\ bridge' = S.bridge
          /\ queue' = queue \o S.out
    /\ driver_calls' = driver_calls + 1
    /\ UNCHANGED <<cfg, channel, snd, last_send, runs, notHostVars>>

Next ==
    \/ \E h \in Hosts : SendStart(h)
    \/ SendTransmit
    \/ SendFinish
    \/ Deliver
    \/ \E h \in Hosts, type \in DriverMessageTypes : Notify(h, type)
    \/ \E h \in Hosts : DirectSift(h)

\* ------------------------------------------------------------------
\* SpecStudent: single calls of student methods and bridge helpers
\* ------------------------------------------------------------------
MaxBases == 2    \* longest basis list, bit list or record in SpecStudent
MaxSample == 2   \* longest sample_positions / reference_bits list

NoOutcome == [kind |-> "none"]

StIdle ==
    /\ st_op = "none"
    /\ st_self = [name |-> "none"]
    /\ st_args = <<>>
    /\ st_out = NoOutcome

\* StudentQuantumHost: the fields the reconciliation and the error estimation
\* read. role is what the host did last: it sent (bb84_send_qubits) or it
\* received (process_received_qbit); neither method clears the other's lists.
StudentQuantumHosts ==
    [random_bits : SeqsUpTo(Bits, MaxBases),
     measurement_outcomes : SeqsUpTo(Bits, MaxBases),
     role : {"sender", "receiver"}]

\* the variant of BasesMatch that is not symmetric
BasesMatchOrdered(alice_basis, bob_basis) == alice_basis <= bob_basis

\* if alice_basis == bob_basis
BasesMatch(alice_basis, bob_basis) == alice_basis = bob_basis

\* the loop of bb84_reconcile_bases from position k (0-based) on; acc is
\* (matching_indices, corresponding_bits)
RECURSIVE ReconcileLoop(_, _, _, _, _)
ReconcileLoop(self, alice_bases, bob_bases, position, acc) ==
    IF position >= Min(Len(alice_bases), Len(bob_bases)) THEN acc
    ELSE LET matching_indices ==
                 IF BasesMatch(alice_bases[position + 1], bob_bases[position + 1])
                 THEN Append(acc[1], position) ELSE acc[1]
             corresponding_bits ==
                 IF ~BasesMatch(alice_bases[position + 1], bob_bases[position + 1])
                 THEN acc[2]
                 ELSE IF position < Len(self.measurement_outcomes)
                 THEN Append(acc[2], self.measurement_outcomes[position + 1])
                 ELSE IF position < Len(self.random_bits)
                 THEN Append(acc[2], self.random_bits[position + 1])
                 ELSE acc[2]
         IN ReconcileLoop(self, alice_bases, bob_bases, position + 1,
                          <<matching_indices, corresponding_bits>>)

\* StudentQuantumHost.bb84_reconcile_bases: (matching_indices, corresponding_bits)
bb84_reconcile_bases(self, alice_bases, bob_bases) ==
    ReconcileLoop(self, alice_bases, bob_bases, 0, <<<<>>, <<>>>>)

\* a host about to be asked to reconcile two basis lists
StInitReconcile ==
    /\ st_op = "bb84_reconcile_bases"
    /\ st_self \in StudentQuantumHosts
    /\ st_args \in SeqsUpTo(Bits, MaxBases) \X SeqsUpTo(Bits, MaxBases)
    /\ st_out = NoOutcome

CallReconcile ==
    /\ st_op = "bb84_reconcile_bases"
    /\ st_out = NoOutcome
    /\ st_out' = [kind |-> "ok",
                  val |-> bb84_reconcile_bases(st_self, st_args[1], st_args[2]),
                  after |-> st_self]
    /\ UNCHANGED <<st_op, st_self, st_args, notStudentVars>>

\* the variant of BB84EstimateLoop that stops at the first position without
\* a recorded value
RECURSIVE BB84EstimateLoopBreak(_, _, _, _, _)
BB84EstimateLoopBreak(self, sample_positions, reference_bits, k, acc) ==
    IF k > Min(Len(sample_positions), Len(reference_bits)) THEN acc
    ELSE LET position == sample_positions[k]
             reference_bit == reference_bits[k]
         IN IF position < Len(self.measurement_outcomes)
            THEN BB84EstimateLoopBreak(self, sample_positions, reference_bits, k + 1,
                     <<acc[1] + (IF Differs(self.measurement_outcomes[position + 1],
                                            reference_bit) THEN 1 ELSE 0),
                       acc[2] + 1>>)
            ELSE IF position < Len(self.random_bits)
            THEN BB84EstimateLoopBreak(self, sample_positions, reference_bits, k + 1,
                     <<acc[1] + (IF Differs(self.random_bits[position + 1],
                                            reference_bit) THEN 1 ELSE 0),
                       acc[2] + 1>>)
            ELSE acc

\* the loop of bb84_estimate_error_rate from the k-th pair on; acc is
\* (error_count, comparison_count)
RECURSIVE BB84EstimateLoop(_, _, _, _, _)
BB84EstimateLoop(self, sample_positions, reference_bits, k, acc) ==
    IF k > Min(Len(sample_positions), Len(reference_bits)) THEN acc
    ELSE LET position == sample_positions[k]
             reference_bit == reference_bits[k]
         IN BB84EstimateLoop(self, sample_positions, reference_bits, k + 1,
                IF position < Len(self.measurement_outcomes)
                THEN <<acc[1] + (IF Differs(self.measurement_outcomes[position + 1],
                                            reference_bit) THEN 1 ELSE 0),
                       acc[2] + 1>>
                ELSE IF position < Len(self.random_bits)
                THEN <<acc[1] + (IF Differs(self.random_bits[position + 1],
                                            reference_bit) THEN 1 ELSE 0),
                       acc[2] + 1>>
                ELSE acc)

\* StudentQuantumHost.bb84_estimate_error_rate as (error_count, comparison_count)
bb84_estimate_error_rate(self, sample_positions, reference_bits) ==
    BB84EstimateLoop(self, sample_positions, reference_bits, 1, <<0, 0>>)

\* "errors / comparisons if comparisons > 0 else 0.0" as a fraction
\* (numerator, denominator)
ErrorRate(counts) == IF counts[2] > 0 THEN <<counts[1], counts[2]>> ELSE <<0, 1>>

\* the sample and reference lists a caller may pass
SampleArgs ==
    SeqsUpTo(0..MaxBases, MaxSample) \X SeqsUpTo(Bits, MaxSample)

\* StudentB92Host: the field the error estimation reads
StudentB92Hosts == [sifted_key : SeqsUpTo(Bits, MaxBases)]

StInitEstimateBB84 ==
    /\ st_op = "bb84_estimate_error_rate"
    /\ st_self \in {h \in StudentQuantumHosts : h.role = "receiver"}
    /\ st_args \in SampleArgs
    /\ st_out = NoOutcome

StInitEstimateB92 ==
    /\ st_op = "b92_estimate_error_rate"
    /\ st_self \in StudentB92Hosts
    /\ st_args \in SampleArgs
    /\ st_out = NoOutcome

CallEstimateBB84 ==
    /\ st_op = "bb84_estimate_error_rate"
    /\ st_out = NoOutcome
    /\ st_out' = [kind |-> "ok",
                  val |-> ErrorRate(bb84_estimate_error_rate(st_self, st_args[1], st_args[2])),
                  after |-> st_self]
    /\ UNCHANGED <<st_op, st_self, st_args, notStudentVars>>

CallEstimateB92 ==
    /\ st_op = "b92_estimate_error_rate"
    /\ st_out = NoOutcome
    /\ st_out' = [kind |-> "ok",
                  val |-> ErrorRate(b92_estimate_error_rate(st_self.sifted_key,
                                                            st_args[1], st_args[2])),
                  after |-> st_self]
    /\ UNCHANGED <<st_op, st_self, st_args, notStudentVars>>

\* prepare_b92_quantum_state of enhanced_student_bridge_b92.py
prepare_b92_quantum_state(bit) ==
    IF bit = 0 THEN "|0⟩"
    ELSE IF bit = 1 THEN "|+⟩"
    ELSE "ValueError"

\* prepare_quantum_state of qsimforb92/enhanced_student_bridge_b92.py
b92_prepare_quantum_state(bit, basis) ==
    IF bit = 0 THEN "|0⟩" ELSE "|+⟩"

\* the three functions that prepare a B92 qubit
PrepareOps == {"b92_prepare_qubit", "prepare_b92_quantum_state", "prepare_quantum_state"}

\* bit values a caller may pass
PrepareBits == {-1, 0, 1, 2}

StInitPrepare ==
    /\ st_op \in PrepareOps
    /\ st_self = [name |-> "none"]
    /\ st_args \in PrepareBits \X {"Z", "X"}
    /\ st_out = NoOutcome

\* how a call that returns a state or raises ValueError ends
Returned(value) ==
    IF value = "ValueError" THEN [kind |-> "error", val |-> value, after |-> st_self]
    ELSE [kind |-> "ok", val |-> value, after |-> st_self]

CallPrepare ==
    /\ st_op \in PrepareOps
    /\ st_out = NoOutcome
    /\ st_out' = Returned(IF st_op = "b92_prepare_qubit"
                          THEN b92_prepare_qubit(st_args[1])
                          ELSE IF st_op = "prepare_b92_quantum_state"
                          THEN prepare_b92_quantum_state(st_args[1])
                          ELSE b92_prepare_quantum_state(st_args[1], st_args[2]))
    /\ UNCHANGED <<st_op, st_self, st_args, notStudentVars>>

\* states a receiver may be handed: the four BB84 states, the two B92 states
\* and one string that is none of them
BB84Qubits == {"|0⟩", "|1⟩", "|+⟩", "|-⟩", "|?⟩"}
B92Qubits == {"|0>", "|+>", "|?>"}

\* a BB84 receiver that has measured at most one qubit
StInitReceiveBB84 ==
    /\ st_op = "process_received_qbit"
    /\ st_self \in {[received_bases |-> <<>>, measurement_outcomes |-> <<>>],
                    [received_bases |-> <<1>>, measurement_outcomes |-> <<0>>]}
    /\ st_args \in BB84Qubits \X {"channel"}
    /\ st_out = NoOutcome

\* StudentQuantumHost.process_received_qbit
CallReceiveBB84 ==
    /\ st_op = "process_received_qbit"
    /\ st_out = NoOutcome
    /\ \E measurement_basis \in {0, 1} :
         \E outcome \in BB84Measure(st_args[1], measurement_basis) :
            st_out' = [kind |-> "ok", val |-> TRUE,
                       after |-> [received_bases |->
                                      Append(st_self.received_bases, measurement_basis),
                                  measurement_outcomes |->
                                      Append(st_self.measurement_outcomes, outcome)]]
    /\ UNCHANGED <<st_op, st_self, st_args, notStudentVars>>

\* the fields b92_process_received_qbit appends to, after the measurements ms
B92Receiver(ms) ==
    [received_measurements |-> ms,
     measurement_outcomes |-> [k \in DOMAIN ms |-> ms[k][1]],
     received_bases |-> [k \in DOMAIN ms |-> ms[k][2]]]

\* a B92 receiver that has measured at most one qubit
StInitReceiveB92 ==
    /\ st_op = "b92_process_received_qbit"
    /\ st_self \in {B92Receiver(<<>>), B92Receiver(<< <<1, "Z">> >>)}
    /\ st_args \in B92Qubits \X {"channel"}
    /\ st_out = NoOutcome

\* StudentB92Host.b92_process_received_qbit: b92_measure_qubit raises
\* ValueError for a state that is neither |0> nor |+>
CallReceiveB92 ==
    /\ st_op = "b92_process_received_qbit"
    /\ st_out = NoOutcome
    /\ IF b92_measure_qubit(st_args[1]) = {}
       THEN st_out' = [kind |-> "error", val |-> "ValueError", after |-> st_self]
       ELSE \E m \in b92_measure_qubit(st_args[1]) :
               st_out' = [kind |-> "ok", val |-> TRUE,
                          after |-> B92Receiver(Append(st_self.received_measurements, m))]
    /\ UNCHANGED <<st_op, st_self, st_args, notStudentVars>>

\* an EnhancedStudentB92ImplementationBridge with a host attached
StInitReceiveBridge ==
    /\ st_op = "bridge.process_received_qbit"
    /\ st_self \in [b92_phase : {"idle", "receiving"},
                    bits_received : {0, 1},
                    expected_bits : {0, 2},
                    student_bob : {B92Receiver(<<>>), B92Receiver(<< <<1, "Z">> >>)}]
    /\ st_args \in B92Qubits \X {"channel"}
    /\ st_out = NoOutcome

\* EnhancedStudentB92ImplementationBridge.process_received_qbit: the phase and
\* bits_received are updated before student_bob measures; an error raised by
\* the measurement leaves the method at that point
CallReceiveBridge ==
    /\ st_op = "bridge.process_received_qbit"
    /\ st_out = NoOutcome
    /\ LET counted == [st_self EXCEPT
                          !.b92_phase = IF @ = "idle" THEN "receiving" ELSE @,
                          !.bits_received = @ + 1]
       IN IF b92_measure_qubit(st_args[1]) = {}
          THEN st_out' = [kind |-> "error", val |-> "ValueError", after |-> counted]
          ELSE \E m \in b92_measure_qubit(st_args[1]) :
                  st_out' = [kind |-> "ok", val |-> TRUE,
                             after |-> [counted EXCEPT
                                 !.student_bob =
                                     B92Receiver(Append(@.received_measurements, m)),
                                 !.b92_phase =
                                     IF counted.bits_received >= counted.expected_bits
                                     THEN "ready_for_sifting" ELSE @]]
    /\ UNCHANGED <<st_op, st_self, st_args, notStudentVars>>

\* measure_quantum_state of qsimforb92/enhanced_student_bridge_b92.py: the
\* outcomes random.randint(0, 1) can give, or the one fixed outcome
b92_measure_quantum_state(quantum_state, measurement_basis) ==
    IF measurement_basis = "Z"
    THEN IF quantum_state \in {"|0⟩", "|0>"} THEN {0}
         ELSE IF quantum_state \in {"|+⟩", "|+>"} THEN {0, 1}
         ELSE {0, 1}
    ELSE IF quantum_state \in {"|+⟩", "|+>"} THEN {0}
         ELSE IF quantum_state \in {"|0⟩", "|0>"} THEN {0, 1}
         ELSE {0, 1}

\* the two functions that measure a B92 qubit
MeasureOps == {"b92_measure_qubit", "measure_quantum_state"}

\* b92_measure_qubit draws its basis itself; measure_quantum_state is handed one
StInitMeasure ==
    /\ st_self = [name |-> "none"]
    /\ st_out = NoOutcome
    /\ \/ /\ st_op = "b92_measure_qubit"
          /\ st_args \in B92Qubits \X {"random"}
       \/ /\ st_op = "measure_quantum_state"
          /\ st_args \in (B92Qubits \cup {"|0⟩", "|+⟩"}) \X {"Z", "X"}

\* a measurement returns, as st_out.val, the outcome and the basis used
CallMeasure ==
    /\ st_op \in MeasureOps
    /\ st_out = NoOutcome
    /\ IF st_op = "b92_measure_qubit"
       THEN IF b92_measure_qubit(st_args[1]) = {}
            THEN st_out' = [kind |-> "error", val |-> "ValueError", after |-> st_self]
            ELSE \E m \in b92_measure_qubit(st_args[1]) :
                    st_out' = [kind |-> "ok", val |-> m, after |-> st_self]
       ELSE \E outcome \in b92_measure_quantum_state(st_args[1], st_args[2]) :
               st_out' = [kind |-> "ok", val |-> <<outcome, st_args[2]>>, after |-> st_self]
    /\ UNCHANGED <<st_op, st_self, st_args, notStudentVars>>

StInit ==
    \/ StInitMeasure
    \/ StInitReconcile
    \/ StInitEstimateBB84
    \/ StInitEstimateB92
    \/ StInitPrepare
    \/ StInitReceiveBB84
    \/ StInitReceiveB92
    \/ StInitReceiveBridge

\* ------------------------------------------------------------------
\* SpecNoise: single calls of QuantumChannel.apply_noise
\* ------------------------------------------------------------------
\* Complex numbers are pairs <<re, im>> of integers; a 2x2 matrix is a pair
\* of rows. A Qobj operator is the matrix m divided by den. A Qobj ket is
\* the vector v times the square root of w[1] / w[2].
MaxRoot == 2    \* strengths are 1 - (r/R)^2 for R up to MaxRoot, 0 <= r <= R

CAdd(a, b) == <<a[1] + b[1], a[2] + b[2]>>
CMul(a, b) == <<a[1] * b[1] - a[2] * b[2], a[1] * b[2] + a[2] * b[1]>>
CConj(a) == <<a[1], 0 - a[2]>>
CScale(k, a) == <<k * a[1], k * a[2]>>

MatMul(A, B) ==
    [i \in 1..2 |-> [j \in 1..2 |->
        CAdd(CMul(A[i][1], B[1][j]), CMul(A[i][2], B[2][j]))]]
MatDag(A) == [i \in 1..2 |-> [j \in 1..2 |-> CConj(A[j][i])]]
MatScale(k, A) == [i \in 1..2 |-> [j \in 1..2 |-> CScale(k, A[i][j])]]
MatAdd(A, B) == [i \in 1..2 |-> [j \in 1..2 |-> CAdd(A[i][j], B[i][j])]]

Oper(den, m) == [type |-> "oper", den |-> den, m |-> m]
Ket(w, v) == [type |-> "ket", w |-> w, v |-> v]

\* qt.qeye(2), qt.sigmax(), qt.sigmay(), qt.sigmaz()
qeye == << << <<1, 0>>, <<0, 0>> >>, << <<0, 0>>, <<1, 0>> >> >>
sigmax == << << <<0, 0>>, <<1, 0>> >>, << <<1, 0>>, <<0, 0>> >> >>
sigmay == << << <<0, 0>>, <<0, -1>> >>, << <<0, 1>>, <<0, 0>> >> >>
sigmaz == << << <<1, 0>>, <<0, 0>> >>, << <<0, 0>>, <<-1, 0>> >> >>

\* qubit * qubit.dag() for a ket
KetToRho(q) ==
    Oper(q.w[2], [i \in 1..2 |-> [j \in 1..2 |->
                     CScale(q.w[1], CMul(q.v[i], CConj(q.v[j])))]])

\* "if qubit.isket: rho = qubit * qubit.dag() else: rho = qubit"
RhoOf(qubit) == IF qubit.type = "ket" THEN KetToRho(qubit) ELSE qubit

\* E * rho * E.dag() for the Kraus operator E = sqrt(w[1] / w[2]) * M / mden
KrausTerm(w, M, mden, rho) ==
    Oper(w[2] * mden * mden * rho.den,
         MatScale(w[1], MatMul(MatMul(M, rho.m), MatDag(M))))

\* the sum of two operators
OperAdd(P, Q) ==
    Oper(P.den * Q.den, MatAdd(MatScale(Q.den, P.m), MatScale(P.den, Q.m)))

\* a strength s is 1 - (s.r / s.R)^2, so that np.sqrt(1 - s) is s.r / s.R
Strengths == {[r |-> r, R |-> R] : r \in 0..MaxRoot, R \in 1..MaxRoot} \
                 {s \in [r : 0..MaxRoot, R : 1..MaxRoot] : s.r > s.R}
StrengthNum(s) == s.R * s.R - s.r * s.r
StrengthDen(s) == s.R * s.R

\* qt.sigmax() * qubit: the product with a ket is a ket, the product with an
\* operator is the operator multiplied from the left only
SigmaxTimes(qubit) ==
    IF qubit.type = "ket"
    THEN Ket(qubit.w, <<qubit.v[2], qubit.v[1]>>)
    ELSE Oper(qubit.den, MatMul(sigmax, qubit.m))

\* _apply_transmutation_noise: flipped says whether random.random() < p_flip
\* (never for strength 0, always for strength 1)
CanFlip(p_flip) == {f \in BOOLEAN : (f => StrengthNum(p_flip) > 0)
                                    /\ (~f => StrengthNum(p_flip) < StrengthDen(p_flip))}

apply_transmutation_noise(qubit, p_flip, flipped) ==
    IF flipped THEN SigmaxTimes(qubit) ELSE qubit

\* _apply_depolarizing_noise: E0 = sqrt(1 - 3p/4) I, E1..E3 = sqrt(p/4) X, Y, Z
apply_depolarizing_noise(qubit, p) ==
    LET rho == RhoOf(qubit)
        w0 == <<4 * StrengthDen(p) - 3 * StrengthNum(p), 4 * StrengthDen(p)>>
        w1 == <<StrengthNum(p), 4 * StrengthDen(p)>>
    IN OperAdd(OperAdd(KrausTerm(w0, qeye, 1, rho), KrausTerm(w1, sigmax, 1, rho)),
               OperAdd(KrausTerm(w1, sigmay, 1, rho), KrausTerm(w1, sigmaz, 1, rho)))

\* E0 = [[1, 0], [0, sqrt(1 - gamma)]], written over the denominator gamma.R
DampE0(gamma) ==
    << << <<gamma.R, 0>>, <<0, 0>> >>, << <<0, 0>>, <<gamma.r, 0>> >> >>

\* _apply_amplitude_damping: E1 = [[0, sqrt(gamma)], [0, 0]]
apply_amplitude_damping(qubit, gamma) ==
    LET rho == RhoOf(qubit)
        E1 == << << <<0, 0>>, <<1, 0>> >>, << <<0, 0>>, <<0, 0>> >> >>
    IN OperAdd(KrausTerm(<<1, 1>>, DampE0(gamma), gamma.R, rho),
               KrausTerm(<<StrengthNum(gamma), StrengthDen(gamma)>>, E1, 1, rho))

\* _apply_phase_damping: E1 = [[0, 0], [0, sqrt(gamma)]]
apply_phase_damping(qubit, gamma) ==
    LET rho == RhoOf(qubit)
        E1 == << << <<0, 0>>, <<0, 0>> >>, << <<0, 0>>, <<1, 0>> >> >>
    IN OperAdd(KrausTerm(<<1, 1>>, DampE0(gamma), gamma.R, rho),
               KrausTerm(<<StrengthNum(gamma), StrengthDen(gamma)>>, E1, 1, rho))

NoiseModels == {"transmutation", "depolarizing", "amplitude_damping", "phase_damping"}

\* apply_noise with QuTiP present and a Qobj qubit
apply_noise(noise_model, qubit, noise_strength, flipped) ==
    IF noise_model = "transmutation"
    THEN apply_transmutation_noise(qubit, noise_strength, flipped)
    ELSE IF noise_model = "depolarizing"
    THEN apply_depolarizing_noise(qubit, noise_strength)
    ELSE IF noise_model = "amplitude_damping"
    THEN apply_amplitude_damping(qubit, noise_strength)
    ELSE IF noise_model = "phase_damping"
    THEN apply_phase_damping(qubit, noise_strength)
    ELSE qubit

\* the qubits handed to a channel: the kets |0>, |1>, |+>, |->, |+i>, |-i>,
\* their density matrices, and the maximally mixed state that
\* send_entanglement obtains from qt.ptrace(bell_state, 1)
NoiseKets ==
    {Ket(<<1, 1>>, << <<1, 0>>, <<0, 0>> >>), Ket(<<1, 1>>, << <<0, 0>>, <<1, 0>> >>),
     Ket(<<1, 2>>, << <<1, 0>>, <<1, 0>> >>), Ket(<<1, 2>>, << <<1, 0>>, <<-1, 0>> >>),
     Ket(<<1, 2>>, << <<1, 0>>, <<0, 1>> >>), Ket(<<1, 2>>, << <<1, 0>>, <<0, -1>> >>)}

NoiseQubits == NoiseKets \cup {KetToRho(k) : k \in NoiseKets} \cup {Oper(2, qeye)}

NoiseInit ==
    /\ st_op = "apply_noise"
    /\ st_self \in [noise_model : NoiseModels]
    /\ st_args \in NoiseQubits \X Strengths
    /\ st_out = NoOutcome

CallApplyNoise ==
    /\ st_op = "apply_noise"
    /\ st_out = NoOutcome
    /\ \E flipped \in CanFlip(st_args[2]) :
          st_out' = [kind |-> "ok",
                     val |-> apply_noise(st_self.noise_model, st_args[1], st_args[2], flipped),
                     after |-> st_self]
    /\ UNCHANGED <<st_op, st_self, st_args, notStudentVars>>

\* ------------------------------------------------------------------
\* SpecGate: single calls on an InteractiveQuantumHostB92 that was handed a
\* student implementation object, or none, and has no enhanced_bridge
\* ------------------------------------------------------------------
required_methods ==
    {"b92_send_qubits", "b92_process_received_qbit", "b92_sifting", "b92_estimate_error_rate"}

\* the student objects a host can be handed: an object like StudentB92Host
\* with some of the four methods and the lists it has filled so far
GateStudents ==
    [present : {TRUE},
     methods : SUBSET required_methods,
     sent_bits : SeqsUpTo(Bits, 1),
     received_measurements : {<<>>, << <<1, "Z">> >>, << <<1, "X">> >>},
     sifted_key : {<<>>, <<0>>},
     calls : {0}]

\* student_implementation = None
NoStudent ==
    [present |-> FALSE, methods |-> {}, sent_bits |-> <<>>,
     received_measurements |-> <<>>, sifted_key |-> <<>>, calls |-> 0]

\* validate_student_implementation: every required method is present
validate_student_implementation(student_implementation) ==
    /\ student_implementation.present
    /\ required_methods \subseteq student_implementation.methods

\* InteractiveQuantumHostB92.__init__ with student_implementation given, or
\* with none and the enhanced bridge not importable
GateHost(require_student_code, student_implementation) ==
    [require_student_code |-> require_student_code,
     student_implementation |-> student_implementation,
     student_code_validated |-> validate_student_implementation(student_implementation),
     sifting_done |-> FALSE,
     processing_count |-> 0,
     transmitted |-> 0,
     sent |-> <<>>]

GateHosts ==
    {GateHost(r, s) : r \in BOOLEAN, s \in GateStudents \cup {NoStudent}}

\* check_student_implementation_required
check_student_implementation_required(self) ==
    IF ~self.require_student_code THEN TRUE
    ELSE self.student_code_validated

\* hasattr(self.student_implementation, method) and the object is not None
HasMethod(self, method) ==
    /\ self.student_implementation.present
    /\ method \in self.student_implementation.methods

GateOps == required_methods \cup {"process_message"}

GateInit ==
    /\ st_op \in GateOps
    /\ st_self \in GateHosts
    /\ st_args \in IF st_op = "process_message" THEN {<<"sifting">>, <<"reconcile_bases">>}
                   ELSE IF st_op = "b92_send_qubits" THEN {<<1>>}
                   ELSE IF st_op = "b92_process_received_qbit" THEN {<<"|0>">>, <<"|+>">>}
                   ELSE {<<>>}
    /\ st_out = NoOutcome

GateResult(value, after) == [kind |-> "ok", val |-> value, after |-> after]

\* the student object after one of its methods ran and set field to value
StudentRan(self, field, value) ==
    [self EXCEPT !.student_implementation.calls = @ + 1,
                 !.student_implementation[field] = value]

\* InteractiveQuantumHostB92.b92_send_qubits(num_qubits)
GateSendQubits ==
    /\ st_op = "b92_send_qubits"
    /\ st_out = NoOutcome
    /\ IF ~check_student_implementation_required(st_self)
       THEN st_out' = GateResult(FALSE, st_self)
       ELSE IF HasMethod(st_self, "b92_send_qubits")
       THEN \E bits \in [1..st_args[1] -> Bits] :
               st_out' = GateResult(TRUE, StudentRan(st_self, "sent_bits", bits))
       ELSE st_out' = GateResult(FALSE, st_self)
    /\ UNCHANGED <<st_op, st_self, st_args, notStudentVars>>

\* InteractiveQuantumHostB92.b92_process_received_qbit(qubit_data)
GateProcessReceived ==
    /\ st_op = "b92_process_received_qbit"
    /\ st_out = NoOutcome
    /\ IF ~check_student_implementation_required(st_self)
       THEN st_out' = GateResult(FALSE, st_self)
       ELSE LET counted == [st_self EXCEPT !.processing_count = @ + 1]
            IN IF HasMethod(st_self, "b92_process_received_qbit")
               THEN \E m \in b92_measure_qubit(st_args[1]) :
                       st_out' = GateResult(TRUE,
                           StudentRan(counted, "received_measurements",
                               Append(st_self.student_implementation.received_measurements, m)))
               ELSE st_out' = GateResult(FALSE, counted)
    /\ UNCHANGED <<st_op, st_self, st_args, notStudentVars>>

\* InteractiveQuantumHostB92.b92_sifting() and b92_estimate_error_rate()
\* without arguments: the student method is called without its two required
\* arguments and raises TypeError before any of its code runs
GateSiftOrEstimate ==
    /\ st_op \in {"b92_sifting", "b92_estimate_error_rate"}
    /\ st_out = NoOutcome
    /\ IF ~check_student_implementation_required(st_self)
       THEN st_out' = GateResult(FALSE, st_self)
       ELSE IF HasMethod(st_self, st_op)
       THEN st_out' = [kind |-> "error", val |-> "TypeError", after |-> st_self]
       ELSE st_out' = GateResult(FALSE, st_self)
    /\ UNCHANGED <<st_op, st_self, st_args, notStudentVars>>

\* process_message, branch "sifting" / "reconcile_bases", on a host without
\* enhanced_bridge; an exception of the branch is caught and ends it
GateAfterSifting(self) ==
    IF self.sifting_done THEN self
    ELSE IF self.student_implementation.present /\ ~HasMethod(self, "b92_sifting")
    THEN self   \* AttributeError
    ELSE LET sifted ==
                 IF self.student_implementation.present
                 THEN StudentRan(self, "sifted_key",
                          b92_sifting(self.student_implementation.sent_bits,
                                      self.student_implementation.received_measurements)[2])
                 ELSE self   \* self.b92_sifting() returns False
             done == [sifted EXCEPT !.sifting_done = TRUE]
         IN IF self.student_implementation.present
            THEN IF HasMethod(self, "b92_estimate_error_rate")
                 THEN [done EXCEPT !.student_implementation.calls = @ + 1,
                                   !.sent = Append(@, "complete")]
                 ELSE done   \* AttributeError
            ELSE [done EXCEPT !.sent = Append(@, "complete")]

GateProcessMessage ==
    /\ st_op = "process_message"
    /\ st_out = NoOutcome
    /\ st_out' = [kind |-> "ok", val |-> "None", after |-> GateAfterSifting(st_self)]
    /\ UNCHANGED <<st_op, st_self, st_args, notStudentVars>>

\* ------------------------------------------------------------------
\* SpecProto: the protocol status files and the helpers that switch protocol
\* ------------------------------------------------------------------
MaxSwitches == 3   \* helper calls per behaviour

BB84_STATUS == "student_implementation_status.json"
B92_STATUS == "student_b92_implementation_status.json"

\* path + ".disabled"
Disabled(path) ==
    IF path = BB84_STATUS THEN "student_implementation_status.json.disabled"
    ELSE "student_b92_implementation_status.json.disabled"

\* os.rename(src, dst): POSIX replaces an existing dst, Windows raises
\* FileExistsError. The result is the directory and whether the call raised.
rename(os, files, src, dst) ==
    IF os = "nt" /\ dst \in files
    THEN [files |-> files, raised |-> TRUE]
    ELSE [files |-> (files \ {src}) \cup {dst}, raised |-> FALSE]

\* disable_bb84 / disable_b92
disable(os, files, path) ==
    IF path \in files
    THEN rename(os, files, path, Disabled(path))
    ELSE [files |-> files, raised |-> FALSE]

\* create_bb84_status_file / create_b92_status_file: the file written has
\* student_implementation_ready true and its own protocol name; a renamed
\* file keeps its content
create_status_file(files, path) == files \cup {path}

\* detect_active_protocol of protocol_detection_utils.py
detect_active_protocol(files) ==
    IF BB84_STATUS \in files THEN "BB84"
    ELSE IF B92_STATUS \in files /\ Disabled(B92_STATUS) \notin files THEN "B92"
    ELSE "BB84"

ProtoHelpers == {"switch_to_bb84", "switch_to_b92", "reset_protocols"}

\* the file a helper disables first and the file it then creates or disables
FirstFile(helper) == IF helper = "switch_to_bb84" THEN B92_STATUS ELSE BB84_STATUS
SecondFile(helper) == IF helper = "switch_to_b92" THEN B92_STATUS
                      ELSE IF helper = "switch_to_bb84" THEN BB84_STATUS
                      ELSE B92_STATUS

ProtoIdle ==
    /\ pr_os = "off"
    /\ pr_files = {}
    /\ pr_calls = <<>>

\* a working directory without status files, as the repository ships it
ProtoInit ==
    /\ pr_os \in {"posix", "nt"}
    /\ pr_files = {}
    /\ pr_calls = <<>>

\* switch_to_bb84, switch_to_b92 or reset_protocols, from call to return or
\* to the exception that ends it
CallHelper(helper) ==
    /\ Len(pr_calls) < MaxSwitches
    /\ LET first == disable(pr_os, pr_files, FirstFile(helper))
           second == IF helper = "reset_protocols"
                     THEN disable(pr_os, first.files, SecondFile(helper))
                     ELSE [files |-> create_status_file(first.files, SecondFile(helper)),
                           raised |-> FALSE]
           ended == IF first.raised THEN first ELSE second
       IN /\ pr_files' = ended.files
          /\ pr_calls' = Append(pr_calls, [helper |-> helper, raised |-> ended.raised])
    /\ UNCHANGED <<pr_os, notProtoVars>>

\* detect_active_protocol() is called: it reads the directory only
CallDetect ==
    /\ Len(pr_calls) < MaxSwitches
    /\ pr_calls' = Append(pr_calls, [helper |-> "detect_active_protocol", raised |-> FALSE])
    /\ UNCHANGED <<pr_os, pr_files, notProtoVars>>

\* ------------------------------------------------------------------
\* SpecPairing: one B92 run of two StudentB92Host objects over a channel
\* that loses qubits and leaves the delivered ones unchanged
\* ------------------------------------------------------------------

\* alice after b92_send_qubits(n), bob before the first qubit arrives.
\* st_args[1] counts the qubits handed to the channel; produced_by records,
\* for each entry of received_measurements, the index of the qubit measured.
PairInit ==
    /\ st_op = "b92_run"
    /\ \E sent_bits \in SeqsUpTo(Bits, MaxLen) \ {<<>>} :
          st_self = [sent_bits |-> sent_bits,
                     received_measurements |-> <<>>,
                     produced_by |-> <<>>]
    /\ st_args = <<0>>
    /\ st_out = NoOutcome

\* transmit_qubit on the next qubit: the loss draw raises QubitLossError, or
\* the qubit reaches b92_process_received_qbit, which measures and records it
PairTransmit ==
    /\ st_op = "b92_run"
    /\ st_out = NoOutcome
    /\ st_args[1] < Len(st_self.sent_bits)
    /\ LET k == st_args[1] + 1
           qubit == b92_prepare_qubit(st_self.sent_bits[k])
       IN /\ st_args' = <<k>>
          /\ \/ UNCHANGED st_self
             \/ \E m \in b92_measure_qubit(qubit) :
                   st_self' = [st_self EXCEPT
                                  !.received_measurements = Append(@, m),
                                  !.produced_by = Append(@, k)]
    /\ UNCHANGED <<st_op, st_out, notStudentVars>>

\* bob.b92_sifting(alice.sent_bits, bob.received_measurements) after the last
\* qubit
PairSift ==
    /\ st_op = "b92_run"
    /\ st_out = NoOutcome
    /\ st_args[1] = Len(st_self.sent_bits)
    /\ st_out' = [kind |-> "ok",
                  val |-> b92_sifting(st_self.sent_bits, st_self.received_measurements),
                  after |-> st_self]
    /\ UNCHANGED <<st_op, st_self, st_args, notStudentVars>>

\* ------------------------------------------------------------------
\* SpecBus: B92WorldEventManager, B92SimulationManager, B92ConnectionManager
\* ------------------------------------------------------------------
MaxEvents == 3          \* events emitted per behaviour
max_history_size == 2   \* B92WorldEventManager.max_history_size (1000), scaled
max_events == 2         \* max_events of both managers (1000), scaled
RecentCount == 1        \* events replayed to a new connection (50), scaled

Range(s) == {s[i] : i \in DOMAIN s}

\* the subsequence of s without the entries in D
Without(s, D) == SelectSeq(s, LAMBDA x : x \notin D)

\* Python's s[-count:]
PyTail(s, count) ==
    IF count = 0 THEN s
    ELSE IF count > 0 THEN SubSeq(s, Len(s) - Min(count, Len(s)) + 1, Len(s))
    ELSE SubSeq(s, Min(-count, Len(s)) + 1, Len(s))

\* list.append(e), then pop(0) when the list is longer than cap
AppendCapped(s, e, cap) ==
    LET t == Append(s, e) IN IF Len(t) > cap THEN Tail(t) ELSE t

\* the listeners of the world manager: the simulation manager's handler and
\* one other callable that may raise
Listeners == {"manager", "observer"}

\* the websockets that connect to /ws/b92
Clients == {"c1", "c2"}

NoBroadcast == [pc |-> "idle", ev |-> 0, i |-> 1, tasks |-> <<>>, results |-> <<>>,
                start |-> {}]

InitWorld(listeners) ==
    [emitted |-> 0, history |-> <<>>, listeners |-> listeners,
     calls |-> [l \in Listeners |-> <<>>], raised |-> FALSE]

InitManager == [events |-> <<>>, conn |-> FALSE, missed |-> FALSE]

InitSocket ==
    [conns |-> <<>>, events |-> <<>>, state |-> [c \in Clients |-> "new"],
     got |-> [c \in Clients |-> <<>>], threads |-> {}, run |-> NoBroadcast]

BusIdle ==
    /\ bus = InitWorld(<<"manager">>)
    /\ mgr = InitManager
    /\ sock = InitSocket

\* after the modules are imported: the simulation manager has registered its
\* handler; another listener may have been registered before it
BusInit ==
    /\ bus \in {InitWorld(<<"manager">>), InitWorld(<<"observer", "manager">>)}
    /\ mgr = InitManager
    /\ sock = InitSocket

\* B92WorldEventManager.get_recent_events(count)
get_recent_events(count) ==
    IF bus.history # <<>> THEN PyTail(bus.history, count) ELSE <<>>

\* B92WorldEventManager.add_event_listener
add_event_listener(listener) ==
    /\ listener \notin Range(bus.listeners)
    /\ bus' = [bus EXCEPT !.listeners = Append(@, listener)]
    /\ UNCHANGED <<mgr, sock, notBusVars>>

\* delayed_connect: socket_conn is set a second after construction
delayed_connect ==
    /\ ~mgr.conn
    /\ mgr' = [mgr EXCEPT !.conn = TRUE]
    /\ UNCHANGED <<bus, sock, notBusVars>>

\* B92WorldEventManager.emit_b92_event: the history is updated, then every
\* listener is called in turn and an exception it raises is printed.
\* The manager's listener _handle_b92_event records the event and, when
\* socket_conn is set, starts a thread that runs broadcast.
emit_b92_event(raises) ==
    LET event == bus.emitted + 1
        called == Range(bus.listeners)
    IN /\ bus.emitted < MaxEvents
       /\ raises => "observer" \in called
       /\ bus' = [bus EXCEPT
                    !.emitted = event,
                    !.history = AppendCapped(@, event, max_history_size),
                    !.calls = [l \in Listeners |->
                                  IF l \in called THEN Append(@[l], event) ELSE @[l]],
                    !.raised = raises]
       /\ mgr' = IF "manager" \in called
                 THEN [mgr EXCEPT !.events = AppendCapped(@, event, max_events),
                                  !.missed = @ \/ ~mgr.conn]
                 ELSE mgr
       /\ sock' = IF "manager" \in called /\ mgr.conn
                  THEN [sock EXCEPT !.threads = @ \cup {event}]
                  ELSE sock
       /\ UNCHANGED notBusVars

\* B92ConnectionManager.connect: the websocket is added, then
\* _send_recent_b92_events sends it the last entries of b92_events
connect(websocket) ==
    /\ sock.state[websocket] = "new"
    /\ sock' = [sock EXCEPT
                  !.state[websocket] = "open",
                  !.conns = Append(@, websocket),
                  !.got[websocket] =
                      LET recent_events == IF sock.events # <<>>
                                           THEN PyTail(sock.events, RecentCount)
                                           ELSE <<>>
                      IN [k \in DOMAIN recent_events |-> <<"replay", recent_events[k]>>]]
    /\ UNCHANGED <<bus, mgr, notBusVars>>

\* the peer of an open websocket goes away: sends to it raise from now on
Break(websocket) ==
    /\ sock.state[websocket] = "open"
    /\ sock' = [sock EXCEPT !.state[websocket] = "broken"]
    /\ UNCHANGED <<bus, mgr, notBusVars>>

\* websocket_b92_endpoint catches the disconnect and calls
\* B92ConnectionManager.disconnect
disconnect(websocket) ==
    /\ sock.state[websocket] = "broken"
    /\ sock' = [sock EXCEPT !.state[websocket] = "closed",
                            !.conns = Without(@, {websocket})]
    /\ UNCHANGED <<bus, mgr, notBusVars>>

\* a broadcast thread starts B92ConnectionManager.broadcast(message): it
\* returns when there is no connection, else it logs the message and enters
\* the loop that creates the send tasks. Threads run in no fixed order.
BroadcastBegin(event) ==
    /\ event \in sock.threads
    /\ sock.run.pc = "idle"
    /\ sock' = IF sock.conns = <<>>
               THEN [sock EXCEPT !.threads = @ \ {event}]
               ELSE [sock EXCEPT
                       !.threads = @ \ {event},
                       !.events = AppendCapped(@, event, max_events),
                       !.run = [NoBroadcast EXCEPT !.pc = "loop", !.ev = event,
                                                   !.start = Range(sock.conns)]]
    /\ UNCHANGED <<bus, mgr, notBusVars>>

\* one iteration of "for connection in self.active_connections" in the
\* broadcast thread; the list is shared with the server's thread
BroadcastLoop ==
    /\ sock.run.pc = "loop"
    /\ sock.run.i <= Len(sock.conns)
    /\ sock' = [sock EXCEPT !.run.tasks = Append(@, sock.conns[sock.run.i]),
                            !.run.i = @ + 1]
    /\ UNCHANGED <<bus, mgr, notBusVars>>

\* the loop ends and asyncio.gather runs the send tasks: a send to a websocket
\* that is not open raises, and gather returns the exception as the result
BroadcastGather ==
    /\ sock.run.pc = "loop"
    /\ sock.run.i > Len(sock.conns)
    /\ LET tasks == sock.run.tasks
           event == sock.run.ev
           results == [k \in DOMAIN tasks |-> sock.state[tasks[k]] # "open"]
       IN sock' = IF tasks = <<>>
                  THEN [sock EXCEPT !.run = NoBroadcast]
                  ELSE [sock EXCEPT
                          !.got = [c \in Clients |->
                                      IF c \in Range(tasks) /\ sock.state[c] = "open"
                                      THEN Append(@[c], <<"live", event>>) ELSE @[c]],
                          !.run.results = results,
                          !.run.pc = "reap"]
    /\ UNCHANGED <<bus, mgr, notBusVars>>

\* "Remove disconnected clients": active_connections[i] is read for every
\* failed task i; an index past the end raises IndexError, which ends the
\* thread before any disconnect
BroadcastReap ==
    /\ sock.run.pc = "reap"
    /\ LET failed == {k \in DOMAIN sock.run.results : sock.run.results[k]}
           disconnected_clients == {sock.conns[k] : k \in failed \cap DOMAIN sock.conns}
       IN sock' = IF \E k \in failed : k > Len(sock.conns)
                  THEN [sock EXCEPT !.run = NoBroadcast]
                  ELSE [sock EXCEPT !.run = NoBroadcast,
                                    !.conns = Without(@, disconnected_clients)]
    /\ UNCHANGED <<bus, mgr, notBusVars>>

\* ------------------------------------------------------------------
\* SpecChannel: QuantumChannel construction and the callers of transmit_qubit
\* ------------------------------------------------------------------
MaxTransmits == 3   \* transmit_qubit calls per behaviour

ChNodes == {"node_1", "node_2"}

\* from_node of a call: an endpoint of the channel or any other node
ChCallers == ChNodes \cup {"other"}

\* constructor arguments, in percent where the code has fractions of 1
ChArgs ==
    [length : {-1, 0, 1, 2},
     loss_per_km : {-50, 0, 50, 100, 150},
     noise_model : {"none", "depolarizing"},
     noise_strength : {1, 150},
     qt : BOOLEAN]

NoLoop == [active |-> FALSE, from |-> "node_1", n |-> 0, idx |-> 1]

NoCall == [from |-> "none", qubit |-> <<0, 0>>, outcome |-> "none", to |-> "none",
           emitted |-> 0]

ChIdle ==
    /\ ch_pc = "off"
    /\ ch_conf = [length |-> 0, loss_per_km |-> 0, noise_model |-> "none",
                  noise_strength |-> 1, qt |-> FALSE]
    /\ ch_loop = NoLoop
    /\ ch_handed = <<>>
    /\ ch_received = [n \in ChNodes |-> <<>>]
    /\ ch_events = <<>>
    /\ ch_last = NoCall
    /\ ch_calls = 0

\* the arguments a caller is about to construct a channel with
ChInit ==
    /\ ch_pc = "args"
    /\ ch_conf \in ChArgs
    /\ ch_loop = NoLoop
    /\ ch_handed = <<>>
    /\ ch_received = [n \in ChNodes |-> <<>>]
    /\ ch_events = <<>>
    /\ ch_last = NoCall
    /\ ch_calls = 0

\* QuantumChannel.__init__: every argument is stored as given
ChConstruct ==
    /\ ch_pc = "args"
    /\ ch_pc' = "ready"
    /\ UNCHANGED <<ch_conf, ch_loop, ch_handed, ch_received, ch_events, ch_last,
                   ch_calls, notChVars>>

\* to_node = self.node_2 if self.node_1 == from_node else self.node_1
ChToNode(from_node) == IF from_node = "node_1" THEN "node_2" ELSE "node_1"

\* variant of ChTransmit that calls receive_qubit before the loss is raised
ChTransmitReceiveFirst(qubit, from_node, r) ==
    LET outcome == TransmitOutcome(ch_conf, r)
        to == ChToNode(from_node)
    IN /\ ch_received' = IF outcome # "ZeroDivisionError"
                         THEN [ch_received EXCEPT ![to] = Append(@, qubit)]
                         ELSE ch_received
       /\ ch_events' = ch_events
       /\ ch_last' = [from |-> from_node, qubit |-> qubit, outcome |-> outcome,
                      to |-> IF outcome = "delivered" THEN to ELSE "none",
                      emitted |-> Len(ch_events') - Len(ch_events)]
       /\ ch_calls' = ch_calls + 1

\* transmit_qubit(qubit, from_node) for the draw r: the loss branch raises
\* before receive_qubit is called; no branch emits an event
ChTransmit(qubit, from_node, r) ==
    LET outcome == TransmitOutcome(ch_conf, r)
        to == ChToNode(from_node)
    IN /\ ch_received' = IF outcome = "delivered"
                         THEN [ch_received EXCEPT ![to] = Append(@, qubit)]
                         ELSE ch_received
       /\ ch_events' = ch_events
       /\ ch_last' = [from |-> from_node, qubit |-> qubit, outcome |-> outcome,
                      to |-> IF outcome = "delivered" THEN to ELSE "none",
                      emitted |-> Len(ch_events') - Len(ch_events)]
       /\ ch_calls' = ch_calls + 1

\* a bridge's b92_send_qubits reaches its loop over the n prepared qubits
ChLoopStart(from_node, n) ==
    /\ ch_pc = "ready"
    /\ ~ch_loop.active
    /\ ch_calls < MaxTransmits
    /\ ch_loop' = [active |-> TRUE, from |-> from_node, n |-> n, idx |-> 1]
    /\ ch_handed' = <<>>
    /\ UNCHANGED <<ch_pc, ch_conf, ch_received, ch_events, ch_last, ch_calls, notChVars>>

\* one iteration of "for q in qubits_prepared: self.host.send_qubit(q, channel)":
\* an exception raised by transmit_qubit ends the loop
ChLoopTransmit ==
    /\ ch_loop.active
    /\ ch_loop.idx <= ch_loop.n
    /\ ch_calls < MaxTransmits
    /\ \E r \in RandomDraws : ChTransmit(<<ch_loop.from, ch_loop.idx>>, ch_loop.from, r)
    /\ ch_handed' = Append(ch_handed, ch_loop.idx)
    /\ ch_loop' = IF ch_last'.outcome = "delivered"
                  THEN [ch_loop EXCEPT !.idx = @ + 1]
                  ELSE NoLoop
    /\ UNCHANGED <<ch_pc, ch_conf, notChVars>>

\* the loop has gone through every prepared qubit
ChLoopEnd ==
    /\ ch_loop.active
    /\ ch_loop.idx > ch_loop.n
    /\ ch_loop' = NoLoop
    /\ UNCHANGED <<ch_pc, ch_conf, ch_handed, ch_received, ch_events, ch_last,
                   ch_calls, notChVars>>

\* a node that is not an endpoint calls channel.transmit_qubit(qubit, node)
ChOtherTransmit ==
    /\ ch_pc = "ready"
    /\ ~ch_loop.active
    /\ ch_calls < MaxTransmits
    /\ \E r \in RandomDraws : ChTransmit(<<"other", ch_calls + 1>>, "other", r)
    /\ UNCHANGED <<ch_pc, ch_conf, ch_loop, ch_handed, notChVars>>

InitChannel == SiftIdle /\ BB84Idle /\ HostIdle /\ ChInit /\ BusIdle /\ StIdle /\ ProtoIdle

NextChannel ==
    \/ ChConstruct
    \/ \E from_node \in ChNodes, n \in 1..MaxQubits : ChLoopStart(from_node, n)
    \/ ChLoopTransmit
    \/ ChLoopEnd
    \/ ChOtherTransmit

SpecChannel == InitChannel /\ [][NextChannel]_vars

InitBus == SiftIdle /\ BB84Idle /\ HostIdle /\ ChIdle /\ BusInit /\ StIdle /\ ProtoIdle

NextBus ==
    \/ add_event_listener("observer")
    \/ delayed_connect
    \/ \E raises \in BOOLEAN : emit_b92_event(raises)
    \/ \E websocket \in Clients : connect(websocket)
    \/ \E websocket \in Clients : Break(websocket)
    \/ \E websocket \in Clients : disconnect(websocket)
    \/ \E event \in 1..MaxEvents : BroadcastBegin(event)
    \/ BroadcastLoop
    \/ BroadcastGather
    \/ BroadcastReap

SpecBus == InitBus /\ [][NextBus]_vars

\* ------------------------------------------------------------------
\* Specifications
\* ------------------------------------------------------------------
InitSift == SiftInit /\ BB84Idle /\ HostIdle /\ ChIdle /\ BusIdle /\ StIdle /\ ProtoIdle

NextSift == SiftCall

SpecSift == InitSift /\ [][NextSift]_vars

InitBB84 == SiftIdle /\ BB84Init /\ HostIdle /\ ChIdle /\ BusIdle /\ StIdle /\ ProtoIdle

NextBB84 == BB84Send \/ BB84Receive

SpecBB84 == InitBB84 /\ [][NextBB84]_vars

Init == SiftIdle /\ BB84Idle /\ HostInit /\ ChIdle /\ BusIdle /\ StIdle /\ ProtoIdle

Spec == Init /\ [][Next]_vars

\* The hosts with the steps that need no caller: a b92_send_qubits call that
\* has started runs on to its end, and the classical transport hands over
\* every message it holds. When a driver starts a run or notifies a host is
\* up to the driver.
SpecFair ==
    /\ Init
    /\ [][Next]_vars
    /\ WF_vars(SendTransmit)
    /\ WF_vars(SendFinish)
    /\ WF_vars(Deliver)

InitStudent == SiftIdle /\ BB84Idle /\ HostIdle /\ ChIdle /\ BusIdle /\ StInit /\ ProtoIdle

NextStudent ==
    \/ CallMeasure
    \/ CallReconcile
    \/ CallEstimateBB84
    \/ CallEstimateB92
    \/ CallPrepare
    \/ CallReceiveBB84
    \/ CallReceiveB92
    \/ CallReceiveBridge

SpecStudent == InitStudent /\ [][NextStudent]_vars

InitNoise == SiftIdle /\ BB84Idle /\ HostIdle /\ ChIdle /\ BusIdle /\ NoiseInit /\ ProtoIdle

NextNoise == CallApplyNoise

SpecNoise == InitNoise /\ [][NextNoise]_vars

InitGate == SiftIdle /\ BB84Idle /\ HostIdle /\ ChIdle /\ BusIdle /\ GateInit /\ ProtoIdle

NextGate ==
    \/ GateSendQubits
    \/ GateProcessReceived
    \/ GateSiftOrEstimate
    \/ GateProcessMessage

SpecGate == InitGate /\ [][NextGate]_vars

InitProto == SiftIdle /\ BB84Idle /\ HostIdle /\ ChIdle /\ BusIdle /\ StIdle /\ ProtoInit

NextProto ==
    \/ \E helper \in ProtoHelpers : CallHelper(helper)
    \/ CallDetect

SpecProto == InitProto /\ [][NextProto]_vars

InitPairing == SiftIdle /\ BB84Idle /\ HostIdle /\ ChIdle /\ BusIdle /\ PairInit /\ ProtoIdle

NextPairing ==
    \/ PairTransmit
    \/ PairSift

SpecPairing == InitPairing /\ [][NextPairing]_vars

\* ------------------------------------------------------------------
\* Properties of b92_sifting (SpecSift)
\* ------------------------------------------------------------------

\* positions zip(sent_bits, received_measurements) pairs up
SiftPaired == 1..Min(Len(sf_sent_bits), Len(sf_received_measurements))

\* paired positions with a conclusive measurement (outcome 1)
SiftConclusive == {i \in SiftPaired : sf_received_measurements[i][1] = 1}

\* the bit a conclusive measurement implies: 1 in the Z basis, 0 in the X basis
SiftImplied(i) == IF sf_received_measurements[i][2] = "Z" THEN 1 ELSE 0

\* conclusive positions in one of the two bases whose claimed sent bit agrees
\* with the implied bit
SiftAgreeing ==
    {i \in SiftConclusive : /\ sf_received_measurements[i][2] \in {"Z", "X"}
                            /\ sf_sent_bits[i] = SiftImplied(i)}

\* C1: b92_sifting returns a sender key and a receiver key that are equal
\* element by element; the keys hold exactly one bit per conclusive position
\* whose claimed sent bit agrees with the implied bit, in order, and that bit is
\* 1 for (outcome 1, Z) and 0 for (outcome 1, X); a conclusive position whose
\* claimed sent bit disagrees contributes nothing.
C1_SiftedKeysEqualAndCrossChecked ==
    sf_pc = "done" =>
        /\ sf_result[1] = sf_result[2]
        /\ Len(sf_result[2]) = Cardinality(SiftAgreeing)
        /\ \A i \in SiftAgreeing :
              sf_result[2][Cardinality({j \in SiftAgreeing : j <= i})] = SiftImplied(i)

\* C1 witness: a call that kept a (1, Z) entry as 1 and a (1, X) entry as 0 and
\* discarded a conclusive entry whose claimed sent bit disagreed
C1_Witness ==
    /\ sf_pc = "done"
    /\ sf_result[2] = <<1, 0>>
    /\ \E i \in SiftConclusive :
          /\ sf_received_measurements[i][2] \in {"Z", "X"}
          /\ sf_sent_bits[i] # SiftImplied(i)

\* C2: every bit of the sifted key comes from a paired position whose outcome
\* is 1 (the key is read off conclusive positions in increasing order), so the
\* key is never longer than the number of outcome-1 measurements.
C2_NoSiftedBitFromInconclusive ==
    sf_pc = "done" =>
        /\ Len(sf_sifted_key) <= Cardinality(SiftConclusive)
        /\ \E f \in [1..Len(sf_sifted_key) -> SiftConclusive] :
              /\ \A a, b \in 1..Len(sf_sifted_key) : a < b => f[a] < f[b]
              /\ \A k \in 1..Len(sf_sifted_key) : sf_sifted_key[k] = sf_sent_bits[f[k]]

\* C2 witness: a call that kept one bit and passed over an outcome-0 entry
\* whose claimed sent bit matched its basis
C2_Witness ==
    /\ sf_pc = "done"
    /\ Len(sf_sifted_key) = 1
    /\ \E i \in SiftPaired \ SiftConclusive :
          /\ sf_received_measurements[i][2] \in {"Z", "X"}
          /\ sf_sent_bits[i] = SiftImplied(i)

\* ------------------------------------------------------------------
\* Properties of the BB84 round trip (SpecBB84)
\* ------------------------------------------------------------------

\* C3: for every index i of the current run already received, if the
\* receiver's measurement basis at i equals the sender's preparation basis at
\* i, the outcome recorded for i equals the bit generated at i.
C3_BB84RoundTrip ==
    \A i \in 1..(bb_next - 1) :
        bb_bob.received_bases[bb_run_start + i] = bb_alice.measurement_bases[i]
            => bb_bob.measurement_outcomes[bb_run_start + i] = bb_alice.random_bits[i]

\* C3 witness: a second run in which bit 1 was sent and measured in the X
\* basis and bit 0 was sent and measured in the Z basis
C3_Witness ==
    /\ bb_run_start = 2
    /\ bb_next = 3
    /\ bb_alice.random_bits = <<1, 0>>
    /\ bb_alice.measurement_bases = <<1, 0>>
    /\ bb_bob.received_bases[bb_run_start + 1] = 1
    /\ bb_bob.received_bases[bb_run_start + 2] = 0

\* ------------------------------------------------------------------
\* Properties of the B92 hosts (Spec)
\* ------------------------------------------------------------------
Last(s) == s[Len(s)]

\* the protocol record behind host h: the sent bits, the measurements and the
\* sifted keys its sifting reads and writes
Record(h) ==
    <<bridge[BridgeOf(h)].student_alice.sent_bits,
      bridge[BridgeOf(h)].student_bob.received_measurements,
      bridge[BridgeOf(h)].student_alice.sifted_key,
      host[h].sifted_key>>

\* the last b92_send_qubits call handed every qubit of the run to the channel
\* and every one of them was counted by the receiver
QubitPhaseComplete ==
    /\ last_send.outcome = "returned"
    /\ last_send.transmitted = last_send.n
    /\ last_send.recorded = last_send.n

\* C4: when a host processes the 'complete' message of a run, the sifted key
\* held by the sender host and the one held by the receiver host are the same
\* list, and the key handed to the completion callback is that list.
C4_CompleteFinalizesSharedKey ==
    [][\A h \in Hosts :
          (last_send.outcome = "returned" /\ host'[h].completed # host[h].completed)
              => /\ host'["A"].sifted_key = host'["B"].sifted_key
                 /\ Last(host'[h].completed) = host'[Peer(h)].sifted_key]_vars

\* C5: after a send of n qubits none of which was lost, the receiver has
\* recorded exactly n (outcome, basis) entries for it.
C5_EveryDeliveredQubitRecordedOnce ==
    (last_send.outcome = "returned" /\ last_send.delivered = last_send.n)
        => last_send.recorded = last_send.n

\* C6: whatever qubits the channel loses, a send hands every qubit of the run
\* to the channel and issues the sifting message after the last one.
C6_SendToleratesLoss ==
    last_send.outcome # "none"
        => /\ last_send.transmitted = last_send.n
           /\ last_send.sifting_sent

\* C7: a 'sifting' or 'complete' message that reaches a host while the qubit
\* phase is incomplete changes neither a sifted key nor the phase, and is not
\* acted upon (no sifting is marked done, no completion callback runs).
C7_ClassicalMessageWaitsForQubits ==
    [][((Deliver \/ \E h \in Hosts, type \in {"sifting", "complete"} : Notify(h, type))
          /\ ~QubitPhaseComplete)
         => /\ \A h \in Hosts : /\ Record(h)' = Record(h)
                                /\ bridge'[h].b92_phase = bridge[h].b92_phase
                                /\ host'[h].sifting_done = host[h].sifting_done
                                /\ host'[h].completed = host[h].completed]_vars

\* C8: a second run starts from a freshly empty record: when b92_send_qubits
\* has drawn the bits of a run after the first and no qubit of it has been sent
\* yet, the receiving side holds no measurement and no received-count, and no
\* host holds a sifted key or a sifting-done flag.
C8_RunStartsFromEmptyRecord ==
    (runs > 1 /\ snd.active /\ snd.idx = 1)
        => /\ bridge[RecvBridge(snd.from)].student_bob.received_measurements = <<>>
           /\ bridge[RecvBridge(snd.from)].bits_received = 0
           /\ \A h \in Hosts : /\ host[h].sifted_key = <<>>
                               /\ bridge[h].student_alice.sifted_key = <<>>
                               /\ ~host[h].sifting_done

\* C9: once a host has processed the 'complete' message of a run, a later
\* receive_qubit, sifting or error-estimation call leaves the sent bits, the
\* measurements and the sifted key of its record unchanged.
C9_RecordSealedAfterComplete ==
    [][\A h \in Hosts :
          (/\ last_send.outcome = "returned"
           /\ host[h].completed # <<>>
           /\ ~(~snd.active /\ snd'.active))
              => Record(h)' = Record(h)]_vars

\* position of a phase along Idle, Sending/Receiving, ReadyForReconciliation,
\* Reconciling, ErrorChecking, Complete
PhaseRank(p) ==
    CASE p = "idle" -> 0
      [] p \in {"sending", "receiving"} -> 1
      [] p = "ready_for_sifting" -> 2
      [] p = "sifting" -> 3
      [] p = "error_checking" -> 4
      [] p = "complete" -> 5

\* C10: the phase only moves forward: no step takes the phase of a bridge to
\* an earlier phase, and no step takes it out of "complete".
C10_PhaseOnlyMovesForward ==
    [][\A b \in Hosts : PhaseRank(bridge'[b].b92_phase) >= PhaseRank(bridge[b].b92_phase)]_vars

\* C11: while a send is in progress the receiving bridge is in
\* "ready_for_sifting" only if the receiver has been handed as many qubits of
\* this run as the sender announced for it.
C11_ReadyOnlyAtExpectedCount ==
    \A b \in Hosts :
        (snd.active /\ bridge[b].b92_phase = "ready_for_sifting")
            => snd.delivered >= Len(snd.qubits)

\* ------------------------------------------------------------------
\* Properties of the channel (SpecChannel)
\* ------------------------------------------------------------------

\* C12: on a channel with loss_per_km = 0, whatever its length and noise
\* model, a transmit_qubit call never ends in the loss error: it hands the
\* qubit to receive_qubit, and for a caller that is an endpoint the receiver
\* is the other endpoint.
C12_LosslessChannelDelivers ==
    (ch_last.outcome # "none" /\ ch_conf.loss_per_km = 0)
        => /\ ch_last.outcome = "delivered"
           /\ ch_last.to \in ChNodes
           /\ Last(ch_received[ch_last.to]) = ch_last.qubit
           /\ ch_last.from \in ChNodes => ch_last.to # ch_last.from

\* C12 witness: a call by node_2 on a channel of length 2 with loss_per_km = 0
\* and a noise model, where the loss branch is entered, delivered the qubit
C12_Witness ==
    /\ ch_conf.loss_per_km = 0
    /\ ch_conf.length = 2
    /\ LossBranch(ch_conf)
    /\ ch_last.from = "node_2"
    /\ ch_last.outcome = "delivered"
    /\ ch_received["node_1"] # <<>>


\* entries of a sequence are pairwise different
NoRepeat(s) == \A i, j \in DOMAIN s : i # j => s[i] # s[j]

\* C13: a transmit_qubit call that ends in the loss error hands nothing to
\* receive_qubit and ends the sending loop, and within one run of the loop no
\* prepared qubit is handed to transmit_qubit twice.
C13_LostQubitNeitherReceivedNorResent ==
    /\ []NoRepeat(ch_handed)
    /\ [][(ch_calls' # ch_calls /\ ch_last'.outcome = "QubitLossError")
              => /\ ch_received' = ch_received
                 /\ ~ch_loop'.active]_vars

\* C13 witness: in a run of two qubits the first was delivered to node_2 and the
\* second was lost; node_2 holds the first qubit only
C13_Witness ==
    /\ ch_last.outcome = "QubitLossError"
    /\ ch_last.qubit = <<"node_1", 2>>
    /\ ch_handed = <<1, 2>>
    /\ ch_received["node_2"] = << <<"node_1", 1>> >>


\* C14: every transmit_qubit call that delivers or loses its qubit has emitted
\* exactly one event when it ends: "qubit transmitted" on delivery, "qubit
\* lost" on loss.
C14_TransmitEmitsExactlyOneEvent ==
    ch_last.outcome \in {"delivered", "QubitLossError"}
        => /\ ch_last.emitted = 1
           /\ Last(ch_events) = IF ch_last.outcome = "delivered"
                                THEN "qubit transmitted" ELSE "qubit lost"

\* the configurations the specification calls valid, in percent
ChConfigValid(ch) ==
    /\ ch.loss_per_km \in 0..100
    /\ ch.length >= 0
    /\ ch.noise_strength \in 0..100

\* C15: no constructed channel has loss_per_km outside [0,1], a negative
\* length or a noise strength outside [0,1], and transmit_qubit is never
\* called on such a channel.
C15_InvalidConfigFailsAtConstruction ==
    (ch_pc = "ready" \/ ch_calls > 0) => ChConfigValid(ch_conf)

\* C16: a transmit_qubit call whose from_node is neither node_1 nor node_2
\* delivers no qubit to either endpoint.
C16_OnlyEndpointsTransmit ==
    [][(ch_calls' # ch_calls /\ ch_last'.from \notin ChNodes)
           => ch_received' = ch_received]_vars


\* ------------------------------------------------------------------
\* Properties of the event managers (SpecBus)
\* ------------------------------------------------------------------

\* the n events emitted so far, in emission order
Emitted(n) == [k \in 1..n |-> k]

\* the last cap of the n events emitted so far
MostRecent(n, cap) == SubSeq(Emitted(n), n - Min(n, cap) + 1, n)

\* no broadcast thread is waiting or running
Quiescent == sock.threads = {} /\ sock.run.pc = "idle"

\* C17: each event history (the world manager's, the simulation manager's and,
\* once every broadcast of an event handed to the connection manager has
\* ended, the connection manager's) holds at most its cap of events, and they
\* are the most recently emitted events in emission order.
C17_HistoryIsMostRecentEvents ==
    /\ Len(bus.history) <= max_history_size
    /\ bus.history = MostRecent(bus.emitted, max_history_size)
    /\ Len(mgr.events) <= max_events
    /\ mgr.events = MostRecent(bus.emitted, max_events)
    /\ Len(sock.events) <= max_events
    /\ (Quiescent /\ mgr.conn /\ ~mgr.missed)
           => sock.events = MostRecent(bus.emitted, max_events)

\* what a websocket is sent on connect when the log holds the given events
Replayed(events) == [k \in DOMAIN events |-> <<"replay", events[k]>>]

\* C18: after a sequence of emits, get_recent_events(count) returns the last
\* count events (at most the cap) in emission order, and a websocket that
\* connects when every broadcast has ended is replayed the most recent
\* events in emission order, as many as the replay count and the cap allow.
C18_ReplayInEmissionOrder ==
    /\ [](\A count \in 1..MaxEvents :
             get_recent_events(count)
                 = MostRecent(bus.emitted, Min(count, max_history_size)))
    /\ [][\A c \in Clients :
             (/\ sock.state[c] = "new" /\ sock'.state[c] = "open"
              /\ Quiescent /\ mgr.conn /\ ~mgr.missed)
                 => sock'.got[c]
                        = Replayed(MostRecent(bus.emitted, Min(RecentCount, max_events)))]_vars

\* C19: an emit calls every listener although one of them raises, and when a
\* websocket of a broadcast is closed or disconnects while the broadcast
\* delivers its event, every other websocket that was connected when the
\* broadcast began and is still connected and open is sent the event.
C19_FailingSubscriberDoesNotBlockOthers ==
    /\ [][bus'.emitted # bus.emitted
             => \A l \in Range(bus.listeners) :
                    bus'.calls[l] = Append(bus.calls[l], bus'.emitted)]_vars
    /\ [][(/\ sock.run.pc = "loop" /\ sock'.run.pc # "loop"
           /\ \E d \in sock.run.start : sock.state[d] # "open")
             => \A c \in sock.run.start \cap Range(sock.conns) :
                    sock.state[c] = "open"
                        => sock'.got[c] = Append(sock.got[c], <<"live", sock.run.ev>>)]_vars

\* C20: a listener that raised in an emit is no longer a listener once the
\* emit has returned, and a websocket whose send failed in a broadcast is no
\* longer a connection once the broadcast has returned.
C20_FailingSubscriberIsDropped ==
    /\ [](bus.raised => "observer" \notin Range(bus.listeners))
    /\ [][(sock.run.pc = "reap" /\ sock'.run.pc = "idle")
             => \A k \in DOMAIN sock.run.results :
                    sock.run.results[k] => sock.run.tasks[k] \notin Range(sock'.conns)]_vars


\* C21: a listener added to the world manager is called with the most recent
\* RecentCount events emitted before it was added, and a websocket that
\* connects when every broadcast has ended is sent the most recent
\* RecentCount events emitted before it connected, whether or not a websocket
\* was connected when they were emitted.
C21_LateJoinerSeesRecentHistory ==
    /\ [][("observer" \notin Range(bus.listeners) /\ "observer" \in Range(bus'.listeners))
             => bus'.calls["observer"]
                    = bus.calls["observer"] \o MostRecent(bus.emitted, RecentCount)]_vars
    /\ [][\A c \in Clients :
             (/\ sock.state[c] = "new" /\ sock'.state[c] = "open"
              /\ Quiescent /\ mgr.conn /\ ~mgr.missed)
                 => /\ Len(sock'.got[c]) = Min(bus.emitted, RecentCount)
                    /\ \A k \in DOMAIN sock'.got[c] :
                           sock'.got[c][k]
                               = <<"replay", bus.emitted - Len(sock'.got[c]) + k>>]_vars

\* the entries of a sequence of event numbers grow strictly
Increasing(s) == \A i, j \in DOMAIN s : i < j => s[i] < s[j]

\* the events a websocket was sent by broadcasts, in the order it got them
Live(c) ==
    LET live == SelectSeq(sock.got[c], LAMBDA m : m[1] = "live")
    IN [k \in DOMAIN live |-> live[k][2]]

\* C22: whatever the order in which the per-event broadcast threads run, the
\* connection manager's buffer holds events in emission order, every websocket
\* is sent events in emission order, and once every broadcast has ended an event
\* that was broadcast while a websocket was connected is in the buffer unless
\* the cap has pushed it out.
C22_AppendsSerializedInEmissionOrder ==
    /\ Increasing(sock.events)
    /\ \A c \in Clients : Increasing(Live(c))
    /\ \A c \in Clients : \A k \in DOMAIN Live(c) :
           (Quiescent /\ Live(c)[k] > bus.emitted - max_events)
               => Live(c)[k] \in Range(sock.events)


\* ------------------------------------------------------------------
\* Properties of the student methods (SpecStudent)
\* ------------------------------------------------------------------

\* the host that was called, and the hosts that hold at most one bit
CallingHosts ==
    {st_self} \cup {h \in StudentQuantumHosts :
                       Len(h.random_bits) + Len(h.measurement_outcomes) <= 1}

\* C23: the matching indices bb84_reconcile_bases returns for (A, B) are the
\* ones it returns for (B, A), on the host that was called and on the other
\* hosts of CallingHosts.
C23_ReconcileSymmetric ==
    (st_op = "bb84_reconcile_bases" /\ st_out.kind = "ok")
        => \A h \in CallingHosts :
               bb84_reconcile_bases(h, st_args[2], st_args[1])[1] = st_out.val[1]

\* C23 witness: lists of different lengths that agree at position 0 only
C23_Witness ==
    /\ st_op = "bb84_reconcile_bases"
    /\ st_out.kind = "ok"
    /\ st_args = << <<0, 1>>, <<0>> >>
    /\ st_out.val[1] = <<0>>

\* the host's own bits: the random bits of a sender, the outcomes of a receiver
OwnBits(self) ==
    IF self.role = "sender" THEN self.random_bits ELSE self.measurement_outcomes

\* C24: bb84_reconcile_bases returns as many bits as matching indices, and
\* the k-th bit is the host's own bit at the k-th matching index.
C24_ReconcileKeepsOwnBitPerMatch ==
    (st_op = "bb84_reconcile_bases" /\ st_out.kind = "ok")
        => /\ Len(st_out.val[2]) = Len(st_out.val[1])
           /\ \A k \in DOMAIN st_out.val[1] :
                  /\ st_out.val[1][k] < Len(OwnBits(st_self))
                  /\ st_out.val[2][k] = OwnBits(st_self)[st_out.val[1][k] + 1]


\* an error estimation has been called
EstimateCalled ==
    st_op \in {"bb84_estimate_error_rate", "b92_estimate_error_rate"} /\ st_out.kind = "ok"

\* the value the host has recorded at a 0-based position, if any: a B92 host's
\* sifted key bit; a BB84 host's measured outcome or, where it has measured
\* nothing, its random bit
RecordOf(self) ==
    IF st_op = "b92_estimate_error_rate" THEN self.sifted_key
    ELSE self.measurement_outcomes
             \o SubSeq(self.random_bits, Len(self.measurement_outcomes) + 1,
                       Len(self.random_bits))

\* the (position, reference) pairs of a call that have a recorded value, and
\* those among them whose recorded value differs from the reference
PairsCompared(self, sample_positions, reference_bits) ==
    {k \in 1..Min(Len(sample_positions), Len(reference_bits)) :
        sample_positions[k] < Len(RecordOf(self))}

PairsWrong(self, sample_positions, reference_bits) ==
    {k \in PairsCompared(self, sample_positions, reference_bits) :
        RecordOf(self)[sample_positions[k] + 1] # reference_bits[k]}

\* C25: the error rate returned equals errors / comparisons, with one
\* comparison per sampled position that has a recorded value and one error per
\* such position whose value differs from the reference, and it is 0.0 when
\* there is no comparison (BB84 and B92).
C25_ErrorRateIsErrorsOverComparisons ==
    EstimateCalled
        => LET comparisons == Cardinality(PairsCompared(st_self, st_args[1], st_args[2]))
               errors == Cardinality(PairsWrong(st_self, st_args[1], st_args[2]))
           IN /\ st_out.val[2] > 0
              /\ comparisons > 0 => st_out.val[1] * comparisons = errors * st_out.val[2]
              /\ comparisons = 0 => st_out.val[1] = 0

\* C25 witness: a B92 host compared two positions and one differed
C25_Witness ==
    /\ st_op = "b92_estimate_error_rate"
    /\ st_out.kind = "ok"
    /\ st_self.sifted_key = <<1, 0>>
    /\ st_args = << <<1, 0>>, <<0, 0>> >>
    /\ st_out.val = <<1, 2>>

\* the permutations of 1..n
Perms(n) == {f \in [1..n -> 1..n] : \A i, j \in 1..n : i # j => f[i] # f[j]}

Permuted(s, f) == [k \in DOMAIN s |-> s[f[k]]]

\* the estimation of the call in st_op on the given host and lists
EstimateOf(self, sample_positions, reference_bits) ==
    IF st_op = "b92_estimate_error_rate"
    THEN ErrorRate(b92_estimate_error_rate(self.sifted_key, sample_positions,
                                           reference_bits))
    ELSE ErrorRate(bb84_estimate_error_rate(self, sample_positions, reference_bits))

\* equality of two fractions
SameRate(a, b) == a[1] * b[2] = b[1] * a[2]

\* C26: for sample and reference lists of equal length, the error rate of
\* the lists permuted by the same permutation equals the error rate returned,
\* and the call leaves the host's record as it was.
C26_ErrorRateOrderInvariant ==
    (EstimateCalled /\ Len(st_args[1]) = Len(st_args[2]))
        => /\ st_out.after = st_self
           /\ \A f \in Perms(Len(st_args[1])) :
                  SameRate(EstimateOf(st_self, Permuted(st_args[1], f),
                                      Permuted(st_args[2], f)),
                           st_out.val)

\* C26 witness: a BB84 receiver was asked about a position it has no outcome
\* for, followed by one whose outcome differs from the reference
C26_Witness ==
    /\ st_op = "bb84_estimate_error_rate"
    /\ st_out.kind = "ok"
    /\ st_self.measurement_outcomes = <<1>>
    /\ st_self.random_bits = <<>>
    /\ st_args = << <<2, 0>>, <<0, 0>> >>
    /\ st_out.val = <<1, 1>>


\* the spellings of the two B92 states
Ket0 == {"|0>", "|0⟩"}
KetPlus == {"|+>", "|+⟩"}

\* C28: each function that prepares a B92 qubit returns |0> for bit 0 and |+>
\* for bit 1, and ends in an error for every other bit value.
C28_PrepareTotalOnBitsErrorElsewhere ==
    (st_op \in PrepareOps /\ st_out.kind # "none")
        => /\ st_args[1] = 0 => (st_out.kind = "ok" /\ st_out.val \in Ket0)
           /\ st_args[1] = 1 => (st_out.kind = "ok" /\ st_out.val \in KetPlus)
           /\ st_args[1] \notin {0, 1} => st_out.kind = "error"

\* the calls that hand a receiver a qubit
ReceiveOps ==
    {"process_received_qbit", "b92_process_received_qbit", "bridge.process_received_qbit"}

\* C29: a receive call that is handed a state it does not recognize ends in
\* an error, and the receiver's record and counters are what they were before
\* the call.
C29_UnrecognizedStateIsAnError ==
    (st_op \in ReceiveOps /\ st_out.kind # "none" /\ st_args[1] \in {"|?⟩", "|?>"})
        => /\ st_out.kind = "error"
           /\ st_out.after = st_self


\* no noise is configured, the driver made no call of its own, and the last
\* send returned without a lost qubit
CleanRun ==
    /\ channel.noise_model = "none"
    /\ driver_calls = 0
    /\ last_send.outcome = "returned"

\* host h received qubits and has handled the "sifting" message, which ends
\* with the error estimation and the "complete" message
FlowRan(h) == host[h].qubit_receive_count > 0 /\ host[h].sifting_done

\* C27: after runs without loss and noise, driven by the hosts' own messages,
\* the error rate a receiver computed is 0.0.
C27_CleanRunReportsZeroErrorRate ==
    \A h \in Hosts :
        (CleanRun /\ FlowRan(h)) => bridge[BridgeOf(h)].last_error_rate[1] = 0


\* the phases after which the bridge assigns no further phase on its own
TerminalPhases == {"complete", "aborted"}

\* the last b92_send_qubits ended with a lost qubit and bridge b still holds
\* fewer qubits than it expects; the driver is free to call again (no bound
\* of the model is reached) but need not
CountNeverReached(b) ==
    /\ ~snd.active
    /\ runs < MaxRuns
    /\ driver_calls < MaxCalls
    /\ last_send.outcome = "QubitLossError"
    /\ bridge[b].bits_received < bridge[b].expected_bits
    /\ bridge[b].b92_phase \notin TerminalPhases

\* C30: a bridge whose run lost a qubit, so that the expected count is not
\* reached, eventually is in a terminal phase.
C30_StalledRunReachesTerminalState ==
    \A b \in Hosts : CountNeverReached(b) ~> (bridge[b].b92_phase \in TerminalPhases)


\* the density matrix a returned Qobj stands for
Returned31 == RhoOf(st_out.val)

Trace(rho) == CAdd(rho.m[1][1], rho.m[2][2])

TraceIsOne(rho) == Trace(rho) = <<rho.den, 0>>

Hermitian(rho) == rho.m = MatDag(rho.m)

\* C31: the state apply_noise returns has trace 1 and is Hermitian, for every
\* noise model and every strength in [0, 1].
C31_NoisePreservesTraceAndHermiticity ==
    (st_op = "apply_noise" /\ st_out.kind = "ok")
        => TraceIsOne(Returned31) /\ Hermitian(Returned31)


\* the basis in which a prepared state gives a certain outcome
MatchingBasis(state) ==
    IF state \in Ket0 THEN "Z" ELSE IF state \in KetPlus THEN "X" ELSE "none"

\* a measurement of one of the two B92 states has returned
Measured ==
    /\ st_op \in MeasureOps
    /\ st_out.kind = "ok"
    /\ st_args[1] \in Ket0 \cup KetPlus

\* the outcomes the measuring function can return for a state and a basis
OutcomesOf(op, state, basis) ==
    IF op = "b92_measure_qubit"
    THEN {m[1] : m \in {x \in b92_measure_qubit(state) : x[2] = basis}}
    ELSE b92_measure_quantum_state(state, basis)

\* C32: a measurement in the basis that matches the prepared state returns 0;
\* in the other basis both 0 and 1 can be returned; so a returned 1 was
\* measured in the basis that does not match.
C32_MeasurementFollowsBornTable ==
    Measured =>
        /\ st_out.val[1] \in {0, 1}
        /\ st_out.val[2] = MatchingBasis(st_args[1]) => st_out.val[1] = 0
        /\ st_out.val[1] = 1 => st_out.val[2] # MatchingBasis(st_args[1])
        /\ \A basis \in {"Z", "X"} :
              OutcomesOf(st_op, st_args[1], basis) =
                  IF basis = MatchingBasis(st_args[1]) THEN {0} ELSE {0, 1}

C32_Witness ==
    /\ Measured
    /\ st_op = "b92_measure_qubit"
    /\ st_args[1] = "|+>"
    /\ st_out.val = <<1, "Z">>


\* p_loss = 1 - (1 - loss_per_km) ** length of a channel whose loss_per_km is
\* in [0, 1] and whose length is not negative, as a fraction of LossDen
LossNum(ch) == SurvDen(ch) - SurvNum(ch)
LossDen(ch) == SurvDen(ch)

\* a constructed channel with QuTiP present and a loss probability above 0
Lossy(ch) ==
    /\ ch.qt
    /\ ch.loss_per_km \in 0..100
    /\ ch.length >= 0
    /\ LossNum(ch) > 0

\* C33: on a channel with p_loss > 0 some draw loses the qubit, and with
\* p_loss = 1 every transmitted qubit is lost, whatever the noise model is.
C33_LossSampledWhateverTheNoiseModel ==
    (ch_pc = "ready" /\ Lossy(ch_conf))
        => /\ \E r \in RandomDraws : TransmitOutcome(ch_conf, r) = "QubitLossError"
           /\ (LossNum(ch_conf) = LossDen(ch_conf) /\ ch_last.outcome # "none")
                  => ch_last.outcome = "QubitLossError"


\* host h is the receiver of the first run, which lost no qubit, and has
\* handled the "sifting" message of that run; the driver made no call
FirstRunSifted(h) ==
    /\ runs = 1
    /\ driver_calls = 0
    /\ last_send.outcome = "returned"
    /\ FlowRan(h)

\* the key the bridge of host h holds after its sifting
KeyOf(h) == bridge[BridgeOf(h)].student_alice.sifted_key

\* the B92 sift of what the peer of h sent against what h measured
SiftOfRun(h) ==
    b92_sifting(bridge[BridgeOf(Peer(h))].student_alice.sent_bits,
                bridge[BridgeOf(h)].student_bob.received_measurements)[2]

\* C34: the key a host computes on a "sifting" message is the sift of the bits
\* its peer sent in the run against the measurements it recorded in the run.
C34_SiftingUsesTheRunsBitsAndMeasurements ==
    \A h \in Hosts : FirstRunSifted(h) => KeyOf(h) = SiftOfRun(h)


\* a call on a host that requires student code and has not validated it
Unvalidated ==
    /\ st_op \in GateOps
    /\ st_out.kind # "none"
    /\ st_self.require_student_code
    /\ ~st_self.student_code_validated

\* C35: on a host that requires student code and has not validated it, each
\* of the four B92 operations returns False and changes nothing, and handling
\* a "sifting" message calls no student method and changes no key or record.
C35_UnvalidatedHostRunsNoStudentCode ==
    Unvalidated =>
        /\ st_op \in required_methods => (st_out.val = FALSE /\ st_out.after = st_self)
        /\ st_out.after.student_implementation = st_self.student_implementation
        /\ st_out.after.transmitted = 0


\* the last helper call, which returned without an exception
LastSwitch ==
    IF pr_calls # <<>> /\ ~Last(pr_calls).raised THEN Last(pr_calls).helper ELSE "none"

\* C36: after switch_to_b92() has returned the detected protocol is B92, and
\* after switch_to_bb84() has returned it is BB84, whatever calls came before.
C36_LastSwitchDecidesActiveProtocol ==
    /\ LastSwitch = "switch_to_b92" => detect_active_protocol(pr_files) = "B92"
    /\ LastSwitch = "switch_to_bb84" => detect_active_protocol(pr_files) = "BB84"


SiftingTypes == {"sifting", "reconcile_bases"}

\* C37: a host that has processed one "sifting" or "reconcile_bases" message
\* skips every further one: processing it changes no host, no bridge, no key
\* and sends no message.
C37_SiftingRunsAtMostOnce ==
    \A h \in Hosts, type \in SiftingTypes :
        host[h].sifting_done => ProcessMessage(Now, h, type) = Now

\* a host that has sifted a key has a further "sifting" message waiting
C37_Witness ==
    \E h \in Hosts, i \in 1..Len(queue) :
        /\ host[h].sifting_done
        /\ KeyOf(h) # <<>>
        /\ queue[i].to = h
        /\ queue[i].type \in SiftingTypes


\* ---------------------------------------------------------------------------
\* C38.  Every run drives the completion callback once.
\* ---------------------------------------------------------------------------

\* Nothing is in flight, no send is in progress, and the channel cannot lose
\* a qubit (transmit_qubit samples loss only under a noise model), so every
\* run that was started delivered its qubits and its sifting message.
QuietAfterCleanRuns ==
    /\ queue = <<>>
    /\ ~snd.active
    /\ driver_calls = 0
    /\ channel.noise_model = "none"

\* h is the only host that called send_qubits.
OnlySender(h) ==
    /\ BridgeOf(h) = h
    /\ bridge[h].student_alice.sent_bits # <<>>
    /\ ~(BridgeOf(Peer(h)) = Peer(h) /\ bridge[Peer(h)].student_alice.sent_bits # <<>>)

\* C38: each sifting message the sender posts is answered by one 'complete'
\* message, so once all messages of its runs are processed the sender's
\* completion callback has been invoked exactly once per run.
C38_CompletionCallbackOncePerRun ==
    \A h \in Hosts :
        (QuietAfterCleanRuns /\ OnlySender(h)) => Len(host[h].completed) = runs


\* ---------------------------------------------------------------------------
\* C39.  Sifting by position after losses keeps no wrong bit (SpecPairing).
\* ---------------------------------------------------------------------------

\* the positions k at which the loop of b92_sifting appends to the keys
KeptPairs(sent_bits, received_measurements) ==
    {k \in 1..Min(Len(sent_bits), Len(received_measurements)) :
        SiftAppend(<<<<>>, <<>>>>, sent_bits[k], received_measurements[k]) # <<<<>>, <<>>>>}

\* the position whose pair gave the j-th bit of the keys
PairOfKeyBit(sent_bits, received_measurements, j) ==
    CHOOSE k \in KeptPairs(sent_bits, received_measurements) :
        Cardinality({i \in KeptPairs(sent_bits, received_measurements) : i <= k}) = j

PairingSifted == st_op = "b92_run" /\ st_out.kind = "ok"

\* C39: whatever qubits the channel lost, every bit of the sifted key equals
\* the bit the sender encoded in the qubit whose measurement was paired, and
\* the sender's and the receiver's keys are equal.
C39_PositionalSiftingKeepsNoWrongBit ==
    PairingSifted =>
        LET sent_bits == st_self.sent_bits
            ms == st_self.received_measurements
            sifted_sender == st_out.val[1]
            sifted_receiver == st_out.val[2]
        IN /\ sifted_sender = sifted_receiver
           /\ \A j \in 1..Len(sifted_receiver) :
                 sifted_receiver[j] =
                     sent_bits[st_self.produced_by[PairOfKeyBit(sent_bits, ms, j)]]

\* a qubit was lost before the one whose measurement gave a key bit, so the
\* measurement is paired with the bit of an earlier position
C39_Witness ==
    /\ PairingSifted
    /\ \E j \in 1..Len(st_out.val[2]) :
          LET k == PairOfKeyBit(st_self.sent_bits, st_self.received_measurements, j)
          IN st_self.produced_by[k] > k


\* ---------------------------------------------------------------------------
\* C40.  The end of a broadcast removes the failed connections only (SpecBus).
\* ---------------------------------------------------------------------------

\* the websockets whose send task of the running broadcast raised
FailedDeliveries ==
    {sock.run.tasks[k] : k \in {i \in DOMAIN sock.run.results : sock.run.results[i]}}

\* C40: when a broadcast that found failed deliveries returns, the
\* connections it removed are exactly those whose delivery failed, whatever
\* connects and disconnects happened while it ran: a connection whose
\* delivery did not fail is still active and none whose delivery failed is.
C40_BroadcastRemovesExactlyFailedConnections ==
    [][(sock.run.pc = "reap" /\ sock'.run.pc = "idle" /\ FailedDeliveries # {})
          => Range(sock'.conns) = Range(sock.conns) \ FailedDeliveries]_vars

====
